---- MODULE Spec2Model ----
(***************************************************************************)
(* Failure-mode analysis pipeline of mle-bench:                            *)
(*   scripts/failure_mode_analysis/analyze_llm_nodes.py  (node analysis)   *)
(*   scripts/failure_mode_analysis/classify_feedbacks.py (classification)  *)
(*   scripts/failure_mode_analysis/merge_taxonomies.py   (merging)         *)
(*                                                                         *)
(* Texts are sequences of characters; a multi-character literal of the     *)
(* source (a tag, a fixed message) is one element of such a sequence.      *)
(* An optional JSON field is a sequence of length 0 (absent) or 1.         *)
(***************************************************************************)
EXTENDS Integers, Sequences, FiniteSets, TLC

VARIABLES
    mode,              \* which script runs: "context", "analyze", "classify",
                       \* "collect", "chunks", "merge", or "main" (classify main
                       \* before run_batches)
    all_nodes,         \* main_async: data["nodes"]
    args,              \* argparse namespace of the running script
    feedbacks,         \* classify main: collect_feedbacks(...) result
    nodes_to_process,  \* main_async: indices into all_nodes, in submission order
    batches,           \* run_batches: chunks(feedbacks, max(1, batch_size))
    pc,                \* position of the main coroutine
    task,              \* per unit: "created", "waiting", "calling", "done"
    sem,               \* asyncio.Semaphore._value
    waiters,           \* asyncio.Semaphore._waiters (FIFO)
    ctx,               \* per unit: what analyze_single_node built and sent
    outcome,           \* per finished unit: the task's result or exception
    completed,         \* units in the order their tasks finished
    consumed,          \* units in the order the caller took their results
    fs,                \* node directory -> [input, output] written by the run
    final_result,      \* classify main: the payload handed to write_json
    reply,             \* per finished unit: what its external call answered
    stalled,           \* units whose external call never answers
    feedback_root,     \* collect_feedbacks: the directory tree at feedback_root_path
    input_files,       \* merge_taxonomies: what each input path holds, in path order
    ignore_errors,     \* merge_taxonomies: --ignore-errors
    taxonomy_to_items, \* merge_taxonomies: taxonomy name -> entries kept so far
    taxonomy_to_seen,  \* merge_taxonomies: taxonomy name -> keys seen so far
    files_read,        \* merge_taxonomies: how many input paths the loop has taken
    taxonomy_path      \* classify main: what --taxonomy-path holds, when main reads it

vars == <<mode, all_nodes, args, feedbacks, nodes_to_process, batches, pc, task,
          sem, waiters, ctx, outcome, completed, consumed, fs, final_result, reply,
          stalled, feedback_root, input_files, ignore_errors, taxonomy_to_items,
          taxonomy_to_seen, files_read, taxonomy_path>>

\* what the run is given; no step changes it
config == <<mode, all_nodes, args, feedbacks, feedback_root, input_files, ignore_errors,
            taxonomy_path>>

\* the accumulators of merge_taxonomies
merger == <<taxonomy_to_items, taxonomy_to_seen, files_read>>

\* the state of a scheduled run (analysis or classification)
run == <<nodes_to_process, batches, task, sem, waiters, ctx, outcome, completed, consumed,
         fs, reply, stalled>>

\* no unit was scheduled
NoRun ==
    /\ nodes_to_process = <<>>
    /\ batches = <<>>
    /\ task = <<>>
    /\ sem = 0
    /\ waiters = <<>>
    /\ ctx = <<>>
    /\ outcome = <<>>
    /\ completed = <<>>
    /\ consumed = <<>>
    /\ fs = <<>>
    /\ reply = <<>>
    /\ stalled = {}

\* no feedback directory and no merge input: the scripts that read them are not running
NoCollectOrMerge ==
    /\ feedback_root = <<>>
    /\ taxonomy_path = <<>>
    /\ input_files = <<>>
    /\ ignore_errors = FALSE
    /\ taxonomy_to_items = <<>>
    /\ taxonomy_to_seen = <<>>
    /\ files_read = 0

(***************************************************************************)
(* Bounds of the model.                                                    *)
(***************************************************************************)
MaxTextLen == 2     \* longest free text of a node field
MaxNodes == 3       \* longest node tree of a scheduled run
MaxConc == 2        \* largest --concurrency / --max-concurrency
MaxSample == 2      \* largest --max_nodes
MaxFeedbacks == 3   \* longest feedback list
MaxBatch == 2       \* largest --batch-size
MaxDirs == 5        \* most directories under the feedback root, both levels together
MaxFiles == 2       \* most input paths of one merge

(***************************************************************************)
(* Texts.                                                                  *)
(***************************************************************************)
Chars == {" ", "x"}
Whitespace == {" ", "\n", "\t"}

RECURSIVE TextsUpTo(_)
TextsUpTo(n) ==
    IF n = 0 THEN {<<>>}
    ELSE LET shorter == TextsUpTo(n - 1)
         IN shorter \cup {Append(t, c) : t \in {s \in shorter : Len(s) = n - 1}, c \in Chars}

Texts == TextsUpTo(MaxTextLen)

RECURSIVE lstrip(_)
lstrip(s) ==
    IF s = <<>> THEN s
    ELSE IF Head(s) \in Whitespace THEN lstrip(Tail(s)) ELSE s

RECURSIVE rstrip(_)
rstrip(s) ==
    IF s = <<>> THEN s
    ELSE IF s[Len(s)] \in Whitespace THEN rstrip(SubSeq(s, 1, Len(s) - 1)) ELSE s

\* str.strip()
strip(s) == rstrip(lstrip(s))

\* p occurs in s as a contiguous run
IsInfix(p, s) == \E k \in 0..(Len(s) - Len(p)) : SubSeq(s, k + 1, k + Len(p)) = p

\* dict.get(key, default) on a node, whose optional fields have length 0 or 1
get(d, key, default) == IF d[key] = <<>> THEN default ELSE d[key][1]

\* x or ""
OrEmpty(x) == IF x = <<>> THEN <<>> ELSE x

(***************************************************************************)
(* analyze_llm_nodes.py: the context and the prompt of one node.           *)
(***************************************************************************)
SYSTEM_PROMPT == <<"\nDo you see any issues in the following? ...\n">>
NO_PARENT == <<"No parent node">>

\* str(node.get("id", "unknown"))
NodeIdUnnamed(node) == "unknown"

NodeId(node) == get(node, "id", "unknown")

\* str(n.get("id")), the key of a node in id_to_node
IdKey(node) == get(node, "id", "None")

\* {str(n.get("id")): n for n in all_nodes}: a later node replaces an earlier one
id_to_node(nodes) ==
    [k \in {IdKey(nodes[i]) : i \in DOMAIN nodes} |->
        nodes[CHOOSE i \in DOMAIN nodes :
                /\ IdKey(nodes[i]) = k
                /\ \A j \in DOMAIN nodes : IdKey(nodes[j]) = k => j <= i]]

ParentAnalysisTrimmed(node, mapping) ==
    LET parent_id == node.parent
    IN IF parent_id # <<>> /\ parent_id[1] # "" /\ parent_id[1] \in DOMAIN mapping
       THEN LET parent_analysis == OrEmpty(get(mapping[parent_id[1]], "analysis", <<>>))
            IN IF strip(parent_analysis) = <<>> THEN NO_PARENT ELSE strip(parent_analysis)
       ELSE NO_PARENT

\* analyze_single_node, lines 82-89: the parent-analysis slot
ParentAnalysis(node, mapping) ==
    LET parent_id == node.parent
    IN IF parent_id # <<>> /\ parent_id[1] # "" /\ parent_id[1] \in DOMAIN mapping
       THEN LET parent_analysis == OrEmpty(get(mapping[parent_id[1]], "analysis", <<>>))
            IN IF strip(parent_analysis) = <<>> THEN NO_PARENT ELSE parent_analysis
       ELSE NO_PARENT

Section(tag, body) == <<"<" \o tag \o ">\n">> \o body \o <<"\n", "</" \o tag \o ">\n">>

build_user_prompt(plan, code, run_analysis) ==
    Section("plan", plan) \o <<"\n">> \o Section("code", code) \o <<"\n">>
        \o Section("run_analysis", run_analysis)

\* analyze_single_node up to the await: identifiers, context, prompt, request
NodeContext(node, mapping) ==
    LET plan == OrEmpty(get(node, "plan", <<>>))
        code == OrEmpty(get(node, "code", <<>>))
        run_analysis == OrEmpty(get(node, "analysis", <<>>))
        user_prompt == build_user_prompt(plan, code, run_analysis)
    IN [node_id |-> NodeId(node),
        parent_analysis |-> ParentAnalysis(node, mapping),
        user_prompt |-> user_prompt,
        request |-> [developer |-> SYSTEM_PROMPT, user |-> user_prompt]]

(***************************************************************************)
(* Specification SpecCtx: the context builder on one node, or on a pair    *)
(* of nodes, with every combination of parent reference and analysis text. *)
(***************************************************************************)
Opt(S) == {<<>>} \cup {<<x>> : x \in S}

CtxNodes ==
    [id : {<<"a">>, <<"b">>},
     parent : Opt({"", "a", "b", "z"}),
     plan : {<< <<"P">> >>},
     code : Opt({<<"C">>}),
     analysis : Opt(Texts)]

CtxTrees == {<<n>> : n \in CtxNodes} \cup {<<m, n>> : m \in CtxNodes, n \in CtxNodes}

NoArgs == [concurrency |-> 0, max_nodes |-> 0, batch_size |-> 0, max_concurrency |-> 0]

InitCtx ==
    /\ mode = "context"
    /\ all_nodes \in CtxTrees
    /\ args = NoArgs
    /\ feedbacks = <<>>
    /\ nodes_to_process = <<>>
    /\ batches = <<>>
    /\ pc = "start"
    /\ task = <<>>
    /\ sem = 0
    /\ waiters = <<>>
    /\ ctx = <<>>
    /\ outcome = <<>>
    /\ completed = <<>>
    /\ consumed = <<>>
    /\ fs = <<>>
    /\ final_result = <<>>
    /\ reply = <<>>
    /\ stalled = {}
    /\ NoCollectOrMerge

\* analyze_single_node(client, all_nodes[i], id_to_node) up to its request
analyze_single_node_context(i) ==
    /\ mode = "context"
    /\ i \in DOMAIN all_nodes
    /\ i \notin DOMAIN ctx
    /\ ctx' = ctx @@ (i :> NodeContext(all_nodes[i], id_to_node(all_nodes)))
    /\ UNCHANGED <<config, merger, nodes_to_process, batches, pc, task, sem, waiters, outcome,
                   completed, consumed, fs, final_result, reply, stalled>>

NextCtx == \E i \in 1..2 : analyze_single_node_context(i)

SpecCtx == InitCtx /\ [][NextCtx]_vars

(***************************************************************************)
(* asyncio.Semaphore, as both scripts use it through "async with".         *)
(***************************************************************************)
SemaphoreNeverLocked(value, ws) == FALSE

\* Semaphore.locked(): no free slot, or an earlier waiter still queued
SemaphoreLocked(value, ws) == value = 0 \/ ws # <<>>

Units == DOMAIN task
InFlight == {u \in Units : task[u] = "calling"}

\* the event loop runs the first step of the tasks in creation order
NextToEnter(u) == task[u] = "created" /\ \A v \in Units : v < u => task[v] # "created"

\* external calls answer only after every task has had its first step
AllEntered == \A v \in Units : task[v] # "created"

\* first step of a unit reaching "async with sem": take a slot or queue up
Enter(u) ==
    /\ NextToEnter(u)
    /\ IF SemaphoreLocked(sem, waiters)
       THEN /\ task' = [task EXCEPT ![u] = "waiting"]
            /\ waiters' = Append(waiters, u)
            /\ sem' = sem
       ELSE /\ task' = [task EXCEPT ![u] = "calling"]
            /\ waiters' = waiters
            /\ sem' = sem - 1

\* the head waiter is woken by a release and takes the freed slot
Resume(u) ==
    /\ task[u] = "waiting"
    /\ waiters # <<>>
    /\ u = Head(waiters)
    /\ sem > 0
    /\ task' = [task EXCEPT ![u] = "calling"]
    /\ waiters' = Tail(waiters)
    /\ sem' = sem - 1

FinishKeepsSlot(u, answer, out) ==
    /\ task[u] = "calling"
    /\ AllEntered
    /\ u \notin stalled
    /\ task' = [task EXCEPT ![u] = "done"]
    /\ reply' = reply @@ (u :> answer)
    /\ outcome' = outcome @@ (u :> out)
    /\ sem' = sem
    /\ completed' = Append(completed, u)

\* the unit's coroutine ends: "async with" releases the slot, the task is done
Finish(u, answer, out) ==
    /\ task[u] = "calling"
    /\ AllEntered
    /\ u \notin stalled
    /\ task' = [task EXCEPT ![u] = "done"]
    /\ reply' = reply @@ (u :> answer)
    /\ outcome' = outcome @@ (u :> out)
    /\ sem' = sem + 1
    /\ completed' = Append(completed, u)

Identity(n) == [i \in 1..n |-> i]

(***************************************************************************)
(* analyze_llm_nodes.py: main_async, bounded_worker, analyze_single_node.  *)
(***************************************************************************)
\* the i-th node of a chain: its parent is the node before it
ChainNode(i) ==
    [id |-> <<"n" \o ToString(i)>>,
     parent |-> IF i = 1 THEN <<>> ELSE <<"n" \o ToString(i - 1)>>,
     plan |-> << <<"plan" \o ToString(i)>> >>,
     code |-> IF i % 2 = 0 THEN <<>> ELSE << <<"C">> >>,
     analysis |-> IF i % 2 = 0 THEN <<>> ELSE << <<"x">> >>]

UniqueTree(n) == [i \in 1..n |-> ChainNode(i)]

\* the same chain, its last node carrying the identifier of the first
DuplicateTree(n) ==
    [i \in 1..n |-> IF i = n THEN [ChainNode(i) EXCEPT !.id = <<"n1">>] ELSE ChainNode(i)]

\* node trees of the scheduled runs
SchedTrees == {UniqueTree(n) : n \in 0..MaxNodes} \cup {DuplicateTree(n) : n \in 2..MaxNodes}

random_sample_with_replacement(n, k) == [1..k -> 1..n]

\* random.sample(all_nodes, k): k distinct positions of 1..n, in any order
random_sample(n, k) == {s \in [1..k -> 1..n] : \A i, j \in 1..k : i # j => s[i] # s[j]}

\* main_async, lines 176-180
Selections(n, max_nodes) ==
    IF max_nodes > 0 /\ n > max_nodes THEN random_sample(n, max_nodes) ELSE {Identity(n)}

\* what the completion service answers to an analysis request
AnalysisResponses ==
    [output_text : Opt({<<"r">>}), dump : {<<"{response json}">>}]

Causes == {<<"timeout">>}

\* analyze_single_node, lines 127-140
AnalysisSuccess(c, response) ==
    LET output_text == get(response, "output_text", <<>>)
    IN [exc |-> FALSE,
        val |-> [node_id |-> c.node_id, user_prompt |-> c.user_prompt,
                 text |-> IF output_text = <<>> THEN response.dump ELSE output_text]]

AnalysisFailurePropagates(c, e) ==
    [exc |-> TRUE, val |-> [node_id |-> c.node_id, user_prompt |-> c.user_prompt, text |-> e]]

\* analyze_single_node, lines 141-142
AnalysisFailure(c, e) ==
    [exc |-> FALSE,
     val |-> [node_id |-> c.node_id, user_prompt |-> c.user_prompt,
              text |-> <<"ERROR during analysis: ">> \o e]]

\* main_async, lines 200-204
InputContent(user_prompt) ==
    <<"System Prompt:\n">> \o SYSTEM_PROMPT \o <<"\n\n", "User Prompt:\n">>
        \o user_prompt \o <<"\n">>

WriteArtifactsOutputOnly(files, r) ==
    [d \in DOMAIN files \cup {r.node_id} |->
        IF d = r.node_id THEN [input |-> <<>>, output |-> r.text] ELSE files[d]]

\* main_async, lines 194-209: input.txt and output.txt under OUTPUT_DIR / node_id
WriteArtifacts(files, r) ==
    [d \in DOMAIN files \cup {r.node_id} |->
        IF d = r.node_id
        THEN [input |-> InputContent(r.user_prompt), output |-> r.text]
        ELSE files[d]]

main_async_submit_clamped ==
    /\ mode = "analyze"
    /\ pc = "start"
    /\ \E sel \in Selections(Len(all_nodes), args.max_nodes) :
        /\ nodes_to_process' = sel
        /\ task' = [u \in DOMAIN sel |-> "created"]
        /\ pc' = IF Len(sel) = 0 THEN "done" ELSE "loop"
    /\ sem' = IF args.concurrency >= 1 THEN args.concurrency ELSE 1
    /\ UNCHANGED <<config, merger, batches, waiters, ctx, outcome, completed, consumed, fs,
                   final_result, reply, stalled>>

\* main_async, lines 173-190: select the nodes and create one task per node
main_async_submit ==
    /\ mode = "analyze"
    /\ pc = "start"
    /\ \E sel \in Selections(Len(all_nodes), args.max_nodes) :
        /\ nodes_to_process' = sel
        /\ task' = [u \in DOMAIN sel |-> "created"]
        /\ pc' = IF Len(sel) = 0 THEN "done" ELSE "loop"
    /\ sem' = args.concurrency
    /\ UNCHANGED <<config, merger, batches, waiters, ctx, outcome, completed, consumed, fs,
                   final_result, reply, stalled>>

\* bounded_worker: first step of the task of unit u
bounded_worker_enter(u) ==
    /\ mode = "analyze"
    /\ u \in Units
    /\ Enter(u)
    /\ ctx' = IF SemaphoreLocked(sem, waiters) THEN ctx
              ELSE ctx @@ (u :> NodeContext(all_nodes[nodes_to_process[u]],
                                            id_to_node(all_nodes)))
    /\ UNCHANGED <<config, merger, nodes_to_process, batches, pc, outcome, completed, consumed,
                   fs, final_result, reply, stalled>>

\* bounded_worker: a queued unit gets its slot and sends its request
bounded_worker_resume(u) ==
    /\ mode = "analyze"
    /\ u \in Units
    /\ Resume(u)
    /\ ctx' = ctx @@ (u :> NodeContext(all_nodes[nodes_to_process[u]],
                                       id_to_node(all_nodes)))
    /\ UNCHANGED <<config, merger, nodes_to_process, batches, pc, outcome, completed, consumed,
                   fs, final_result, reply, stalled>>

\* analyze_single_node: the request returned a response
analyze_single_node_return(u) ==
    /\ mode = "analyze"
    /\ u \in Units
    /\ \E response \in AnalysisResponses : Finish(u, [raised |-> FALSE, response |-> response],
                                             AnalysisSuccess(ctx[u], response))
    /\ UNCHANGED <<config, merger, nodes_to_process, batches, pc, waiters, ctx, consumed, fs,
                   final_result, stalled>>

\* analyze_single_node: the request raised
analyze_single_node_except(u) ==
    /\ mode = "analyze"
    /\ u \in Units
    /\ \E e \in Causes : Finish(u, [raised |-> TRUE, cause |-> e], AnalysisFailure(ctx[u], e))
    /\ UNCHANGED <<config, merger, nodes_to_process, batches, pc, waiters, ctx, consumed, fs,
                   final_result, stalled>>

in_submission_order(done_order, taken) ==
    {u \in {Len(taken) + 1} : \E k \in DOMAIN done_order : done_order[k] = u}

\* asyncio.as_completed: the next result is that of the next task to have finished
as_completed(done_order, taken) ==
    IF Len(taken) < Len(done_order) THEN {done_order[Len(taken) + 1]} ELSE {}

\* main_async, lines 192-215: one iteration of the loop over as_completed
main_async_loop ==
    /\ mode = "analyze"
    /\ pc = "loop"
    /\ \E u \in as_completed(completed, consumed) :
          IF outcome[u].exc
          THEN /\ pc' = "crashed"
               /\ UNCHANGED <<consumed, fs>>
          ELSE /\ fs' = WriteArtifacts(fs, outcome[u].val)
               /\ consumed' = Append(consumed, u)
               /\ pc' = IF Len(consumed) + 1 = Len(nodes_to_process) THEN "done" ELSE "loop"
    /\ UNCHANGED <<config, merger, nodes_to_process, batches, task, sem, waiters, ctx, outcome,
                   completed, final_result, reply, stalled>>

(***************************************************************************)
(* classify_feedbacks.py: main, run_batches, process_batch, call_gpt_async.*)
(***************************************************************************)
Max(a, b) == IF a >= b THEN a ELSE b
Min(a, b) == IF a <= b THEN a ELSE b

\* dict.get(key, default) on a parsed JSON object
dget(d, key, default) == IF key \in DOMAIN d THEN d[key] ELSE default

\* main, lines 321-325: the taxonomy read by read_taxonomy_json
taxonomy_name == "T"
level1_categories == <<"Bugs">>
taxonomy_raw == <<"{\"T\": {\"Bugs\": {\"OffByOne\": [], \"Uncategorized\": []}}}">>

\* the (node_id, feedback_text) pairs main gets from collect_feedbacks
Feedback(i) == <<"node" \o ToString(i), <<"x">>>>
FeedbackLists == {[i \in 1..n |-> Feedback(i)] : n \in 1..MaxFeedbacks}

chunks_full_only(seq, size) ==
    [k \in 1..(Len(seq) \div size) |-> SubSeq(seq, (k - 1) * size + 1, k * size)]

\* run_batches.chunks: [seq[i:i + size] for i in range(0, len(seq), size)]
chunks(seq, size) ==
    [k \in 1..((Len(seq) + size - 1) \div size) |->
        SubSeq(seq, (k - 1) * size + 1, Min(k * size, Len(seq)))]

RECURSIVE FeedbackLines(_, _)
FeedbackLines(batch, idx) ==
    IF idx > Len(batch) THEN <<>>
    ELSE << <<"<feedback" \o ToString(idx) \o ">">>,
            <<"<node_id>" \o batch[idx][1] \o "</node_id>">>,
            batch[idx][2],
            <<"</feedback" \o ToString(idx) \o ">">>,
            <<>> >> \o FeedbackLines(batch, idx + 1)

\* "\n".join(lines)
RECURSIVE Join(_)
Join(lines) ==
    IF lines = <<>> THEN <<>>
    ELSE IF Len(lines) = 1 THEN lines[1]
    ELSE lines[1] \o <<"\n">> \o Join(Tail(lines))

build_prompt(batch, name, raw) ==
    Join(<< <<"Classify each issue mentioned in the feedbacks ...">>, <<>>,
            <<"<feedbacks>">> >>
         \o FeedbackLines(batch, 1)
         \o << <<"</feedbacks>">>, <<>>,
               <<"<known_taxonomy_name>">>, <<name>>, <<"</known_taxonomy_name>">>, <<>>,
               <<"<known_taxonomy_json>">>, raw, <<"</known_taxonomy_json>">>, <<>>,
               <<"Important: Do not classify entire feedbacks ...">> >>)

\* classification entries a response may carry; nothing after json.loads looks at the
\* fields, so an entry may name a level1 the request's enum did not offer
EntryA == [issue |-> "slow loop", node_id |-> "node1", level1 |-> "Bugs",
           level2 |-> "OffByOne"]
EntryB == [issue |-> "leak", node_id |-> "node2", level1 |-> "Perf",
           level2 |-> "Uncategorized"]

PayloadA == [taxonomy_name |-> "T", classifications |-> <<EntryA>>]
PayloadB == [taxonomy_name |-> "U", classifications |-> <<EntryB, EntryA>>]

\* a response text, by what json.loads makes of it
BlankText == [kind |-> "blank"]
GarbageText == [kind |-> "garbage"]
JsonText(p) == [kind |-> "json", value |-> p]

\* what the completion service answers to a classification request
ClassifyResponses ==
    {[output_text |-> <<t>>, output |-> <<>>, can_dump |-> TRUE] :
        t \in {GarbageText, JsonText(PayloadA)}}
    \cup {[output_text |-> <<BlankText>>, output |-> <<JsonText(PayloadB)>>,
           can_dump |-> TRUE]}
    \cup {[output_text |-> <<>>, output |-> <<BlankText>>, can_dump |-> d] : d \in BOOLEAN}

\* call_gpt_async, lines 243-270: the first non-blank text of the response
FindJsonText(response) ==
    IF response.output_text # <<>> /\ response.output_text[1].kind # "blank"
    THEN response.output_text
    ELSE IF response.output # <<>> /\ response.output[1].kind # "blank"
         THEN response.output
         ELSE <<>>

\* call_gpt_async, lines 272-291
call_gpt_async(response) ==
    LET json_text == FindJsonText(response)
    IN IF json_text # <<>>
       THEN IF json_text[1].kind = "json" THEN json_text[1].value
            ELSE [raw |-> json_text[1]]
       ELSE IF response.can_dump THEN [response |-> "model_dump"]
            ELSE [error |-> "Unable to extract structured output from response."]

BatchFailurePropagates(e) ==
    [exc |-> TRUE, val |-> [taxonomy_name |-> taxonomy_name, classifications |-> <<>>]]

\* process_batch, lines 343-345
BatchFailure(e) ==
    [exc |-> FALSE, val |-> [taxonomy_name |-> taxonomy_name, classifications |-> <<>>]]

MergedFirstOnly(results, k) ==
    IF k > Len(results) THEN <<>> ELSE dget(results[k], "classifications", <<>>)

\* run_batches, lines 350-352
RECURSIVE Merged(_, _)
Merged(results, k) ==
    IF k > Len(results) THEN <<>>
    ELSE dget(results[k], "classifications", <<>>) \o Merged(results, k + 1)

\* run_batches, lines 332-347: chunk the feedbacks, one coroutine per batch
run_batches_submit ==
    /\ mode = "classify"
    /\ pc = "start"
    /\ LET bs == chunks(feedbacks, Max(1, args.batch_size))
       IN /\ batches' = bs
          /\ task' = [b \in DOMAIN bs |-> "created"]
    /\ sem' = Max(1, args.max_concurrency)
    /\ pc' = "gather"
    /\ UNCHANGED <<config, merger, nodes_to_process, waiters, ctx, outcome, completed, consumed,
                   fs, final_result, reply, stalled>>

\* process_batch: first step, the prompt is built before "async with semaphore"
process_batch_enter(b) ==
    /\ mode = "classify"
    /\ b \in Units
    /\ Enter(b)
    /\ ctx' = ctx @@ (b :> [request |-> build_prompt(batches[b], taxonomy_name,
                                                      taxonomy_raw)])
    /\ UNCHANGED <<config, merger, nodes_to_process, batches, pc, outcome, completed, consumed,
                   fs, final_result, reply, stalled>>

\* process_batch: a queued batch gets its slot and sends its request
process_batch_resume(b) ==
    /\ mode = "classify"
    /\ b \in Units
    /\ Resume(b)
    /\ UNCHANGED <<config, merger, nodes_to_process, batches, pc, ctx, outcome, completed,
                   consumed, fs, final_result, reply, stalled>>

\* call_gpt_async returned to process_batch
call_gpt_async_return(b) ==
    /\ mode = "classify"
    /\ b \in Units
    /\ \E response \in ClassifyResponses :
        Finish(b, [raised |-> FALSE, response |-> response],
               [exc |-> FALSE, val |-> call_gpt_async(response)])
    /\ UNCHANGED <<config, merger, nodes_to_process, batches, pc, waiters, ctx, consumed, fs,
                   final_result, stalled>>

\* call_gpt_async raised into process_batch
process_batch_except(b) ==
    /\ mode = "classify"
    /\ b \in Units
    /\ \E e \in Causes : Finish(b, [raised |-> TRUE, cause |-> e], BatchFailure(e))
    /\ UNCHANGED <<config, merger, nodes_to_process, batches, pc, waiters, ctx, consumed, fs,
                   final_result, stalled>>

\* run_batches, lines 348-354, and main, lines 356-357: gather answers once every
\* batch is done, with the results in submission order
run_batches_gather ==
    /\ mode = "classify"
    /\ pc = "gather"
    /\ \A b \in Units : task[b] = "done"
    /\ IF \E b \in Units : outcome[b].exc
       THEN /\ pc' = "crashed"
            /\ UNCHANGED <<consumed, final_result>>
       ELSE /\ consumed' = Identity(Len(batches))
            /\ final_result' =
                 [taxonomy_name |-> taxonomy_name,
                  classifications |-> Merged([b \in DOMAIN batches |-> outcome[b].val], 1)]
            /\ pc' = "done"
    /\ UNCHANGED <<config, merger, nodes_to_process, batches, task, sem, waiters, ctx, outcome,
                   completed, fs, reply, stalled>>

(***************************************************************************)
(* Specification Spec: one run of either script, from its parsed arguments *)
(* and loaded input to its end.                                            *)
(***************************************************************************)
Init ==
    /\ mode \in {"analyze", "classify"}
    /\ IF mode = "analyze"
       THEN /\ all_nodes \in SchedTrees
            /\ feedbacks = <<>>
            /\ args \in [concurrency : 0..MaxConc, max_nodes : -1..MaxSample,
                         batch_size : {0}, max_concurrency : {0}]
       ELSE /\ all_nodes = <<>>
            /\ feedbacks \in FeedbackLists
            /\ args \in [concurrency : {0}, max_nodes : {0},
                         batch_size : 0..MaxBatch, max_concurrency : 0..MaxConc]
    /\ nodes_to_process = <<>>
    /\ batches = <<>>
    /\ pc = "start"
    /\ task = <<>>
    /\ sem = 0
    /\ waiters = <<>>
    /\ ctx = <<>>
    /\ outcome = <<>>
    /\ completed = <<>>
    /\ consumed = <<>>
    /\ fs = <<>>
    /\ final_result = <<>>
    /\ reply = <<>>
    /\ stalled = {}
    /\ NoCollectOrMerge

Next ==
    \/ main_async_submit
    \/ \E u \in Units : bounded_worker_enter(u)
    \/ \E u \in Units : bounded_worker_resume(u)
    \/ \E u \in Units : analyze_single_node_return(u)
    \/ \E u \in Units : analyze_single_node_except(u)
    \/ main_async_loop
    \/ run_batches_submit
    \/ \E b \in Units : process_batch_enter(b)
    \/ \E b \in Units : process_batch_resume(b)
    \/ \E b \in Units : call_gpt_async_return(b)
    \/ \E b \in Units : process_batch_except(b)
    \/ run_batches_gather

Spec == Init /\ [][Next]_vars

\* every ready callback of the event loop runs, and every external call answers
FairSpec == Spec /\ WF_vars(Next)

(***************************************************************************)
(* Notions the properties below share.                                     *)
(***************************************************************************)
Range(f) == {f[k] : k \in DOMAIN f}

\* the concurrency limit K of the running scheduler instance
KLimit == IF mode = "analyze" THEN args.concurrency ELSE Max(1, args.max_concurrency)

\* the node a unit of the node analysis was created for
NodeOf(u) == all_nodes[nodes_to_process[u]]

Failed == {u \in DOMAIN reply : reply[u].raised}
Succeeded == {u \in DOMAIN reply : ~reply[u].raised}

\* every unit's result was taken by the caller exactly once
OnePerUnit ==
    /\ Len(consumed) = Cardinality(Units)
    /\ \A u \in Units : Cardinality({k \in DOMAIN consumed : consumed[k] = u}) = 1

(***************************************************************************)
(* C1. In every reachable state of either scheduler instance, the number   *)
(* of units whose external call is in flight is at most the limit K        *)
(* (concurrency for node analysis, max(1, max-concurrency) for batches).   *)
(***************************************************************************)
\* C1: at most K units are in flight, in every reachable state of either instance
C1_InFlightAtMostK == Cardinality(InFlight) <= KLimit

\* the limit is reached while another unit queues for a slot
C1_Witness ==
    /\ mode = "analyze"
    /\ KLimit = 2
    /\ Cardinality(InFlight) = 2
    /\ waiters # <<>>

(***************************************************************************)
(* C2. With K >= 1 and external calls that all answer (return or raise),   *)
(* a run with N submitted units eventually terminates having delivered     *)
(* exactly one result per unit to the caller: none lost, none duplicated,  *)
(* none skipped.                                                           *)
(***************************************************************************)
\* C2: with K >= 1 the submitted run ends, each unit's result delivered exactly once
C2_TerminatesWithAllResults ==
    /\ (pc # "start" /\ KLimit >= 1) ~> (pc = "done" /\ OnePerUnit)
    /\ [](pc = "done" => OnePerUnit /\ Units \subseteq DOMAIN outcome)

\* a finished run in which units queued, one of them failing
C2_Witness ==
    /\ pc = "done"
    /\ KLimit = 1
    /\ Cardinality(Units) = 3
    /\ OnePerUnit
    /\ Failed # {}
    /\ Succeeded # {}

(***************************************************************************)
(* Specification StallSpec: the same runs, where the completion service    *)
(* may leave the call of one unit unanswered for ever.                     *)
(***************************************************************************)
\* client.responses.create of unit u never returns and never raises
completion_never_answers(u) ==
    /\ u \in Units
    /\ task[u] = "calling"
    /\ stalled = {}
    /\ stalled' = {u}
    /\ UNCHANGED <<config, merger, nodes_to_process, batches, pc, task, sem, waiters, ctx,
                   outcome, completed, consumed, fs, final_result, reply>>

NextStall ==
    \/ Next
    \/ \E u \in Units : completion_never_answers(u)

StallSpec == Init /\ [][NextStall]_vars

\* every ready callback of the event loop runs, and every call but the stalled
\* one answers
FairStallSpec == StallSpec /\ WF_vars(NextStall)

(***************************************************************************)
(* C3. In node analysis, a unit whose external call raises has the result  *)
(* "ERROR during analysis: <cause>", which is written as the output        *)
(* artifact of its node; the failure never leaves the unit, and every      *)
(* other submitted unit still runs and has its own result written.         *)
(***************************************************************************)
\* the last unit taken by the caller among those of the same node directory
LastWriter(u) ==
    \E k \in DOMAIN consumed :
        /\ consumed[k] = u
        /\ \A j \in DOMAIN consumed : NodeId(NodeOf(consumed[j])) = NodeId(NodeOf(u)) => j <= k

ErrorText(u) == <<"ERROR during analysis: ">> \o reply[u].cause

AllResultsWritten ==
    /\ mode = "analyze"
    /\ pc = "done"
    /\ OnePerUnit
    /\ \A v \in Units : LastWriter(v) => fs[NodeId(NodeOf(v))].output = outcome[v].val.text

C3_FailureRecorded ==
    \A u \in Failed :
        /\ ~outcome[u].exc
        /\ outcome[u].val.text = ErrorText(u)
        /\ LastWriter(u) => fs[NodeId(NodeOf(u))].output = ErrorText(u)

\* C3: a raising call is recorded as error text, written, and stops no other unit
C3_FailureIsContained ==
    /\ [](mode = "analyze" => pc # "crashed" /\ C3_FailureRecorded)
    /\ (mode = "analyze" /\ Failed # {}) ~> AllResultsWritten

\* a finished node analysis where the first unit failed and a later one succeeded
C3_Witness ==
    /\ mode = "analyze"
    /\ pc = "done"
    /\ 1 \in Failed
    /\ Succeeded # {}
    /\ fs[NodeId(NodeOf(1))].output = <<"ERROR during analysis: ", "timeout">>

(***************************************************************************)
(* C4. In batch classification, a batch whose external call raises, or     *)
(* whose response holds no structured classifications, contributes an      *)
(* empty list; the run does not abort, and the final result holds every    *)
(* entry returned by every other batch.                                    *)
(***************************************************************************)
\* the classification entries the answer to a batch carries as parsed JSON
ReturnedEntries(answer) ==
    IF answer.raised THEN <<>>
    ELSE LET texts == {answer.response.output_text, answer.response.output} \ {<<>>}
             parsed == {t \in texts : t[1].kind = "json"}
         IN IF parsed = {} THEN <<>>
            ELSE (CHOOSE t \in parsed : TRUE)[1].value.classifications

RECURSIVE AllReturnedEntries(_)
AllReturnedEntries(b) ==
    IF b > Len(batches) THEN <<>> ELSE ReturnedEntries(reply[b]) \o AllReturnedEntries(b + 1)

ConsumedInCompletionOrder ==
    /\ Len(consumed) <= Len(completed)
    /\ \A k \in DOMAIN consumed : consumed[k] = completed[k]

\* C5 as stated: both instances consume in completion order
C5_Original == ConsumedInCompletionOrder

(***************************************************************************)
(* C5, amended. Node analysis consumes results in completion order, and a  *)
(* completed unit's result can always be consumed next; batch              *)
(* classification consumes no result before every batch has completed,     *)
(* and then consumes them all in submission order.                         *)
(***************************************************************************)
\* C5 amended: completion order in node analysis, all-at-once submission order in batches
C5_Amended ==
    /\ mode = "analyze" =>
        /\ ConsumedInCompletionOrder
        /\ (pc = "loop" /\ Len(consumed) < Len(completed)) => ENABLED main_async_loop
    /\ mode = "classify" =>
        \/ consumed = <<>>
        \/ /\ \A b \in Units : task[b] = "done"
           /\ consumed = Identity(Len(batches))

\* node analysis took the result of a later unit while an earlier one is in flight
C5_Witness ==
    /\ mode = "analyze"
    /\ \E u, v \in Units : u < v /\ task[u] = "calling" /\ v \in Range(consumed)

(***************************************************************************)
(* C6. A stalled external call stalls only its own unit: when the call of  *)
(* exactly one unit never answers, K >= 2 and every other call answers,    *)
(* every other unit eventually gets a slot, completes and has its result   *)
(* consumed by the caller, in both instances.                              *)
(***************************************************************************)
OneStalled == stalled # {} /\ KLimit >= 2
OthersCompleted == \A v \in Units \ stalled : task[v] = "done"
OthersConsumed == \A v \in Units \ stalled : v \in Range(consumed)

\* C6 as stated: with one call stalled, all other units complete and are consumed
C6_Original == OneStalled ~> (OthersCompleted /\ OthersConsumed)

(***************************************************************************)
(* C6, amended. Under the same conditions every other unit eventually gets *)
(* a slot and completes in both instances; in node analysis its result is  *)
(* also consumed by the caller, while in batch classification no result    *)
(* is ever consumed, the caller waiting for all batches together.          *)
(***************************************************************************)
\* C6 amended: the others complete; they are consumed in node analysis only
C6_Amended ==
    /\ OneStalled ~> (OthersCompleted /\ (mode = "analyze" => OthersConsumed))
    /\ [](mode = "classify" /\ stalled # {} => consumed = <<>> /\ pc = "gather")

\* node analysis: the first call never answers, two other units were consumed
C6_Witness ==
    /\ mode = "analyze"
    /\ stalled = {1}
    /\ KLimit = 2
    /\ Cardinality(Units) = 3
    /\ OthersConsumed

(***************************************************************************)
(* C7. For every node and every identifier-to-node mapping, the            *)
(* parent-analysis slot is the sentinel "No parent node" when the node has *)
(* no parent identifier, when that identifier is no key of the mapping, or *)
(* when the parent's analysis text is blank after trimming; in every other *)
(* case it is the parent's analysis text unchanged (not trimmed).          *)
(***************************************************************************)
IsBlank(t) == \A k \in DOMAIN t : t[k] \in Whitespace

HasParentId(node) == node.parent # <<>> /\ node.parent[1] # ""

\* the analysis text of the parent, "" when the parent carries none
ParentText(node, mapping) ==
    LET parent == mapping[node.parent[1]]
    IN IF parent.analysis = <<>> THEN <<>> ELSE parent.analysis[1]

ExpectedSlot(node, mapping) ==
    IF ~HasParentId(node) THEN <<"No parent node">>
    ELSE IF node.parent[1] \notin DOMAIN mapping THEN <<"No parent node">>
    ELSE IF IsBlank(ParentText(node, mapping)) THEN <<"No parent node">>
    ELSE ParentText(node, mapping)

\* C7: the computed parent-analysis slot is the sentinel or the parent's text unchanged
C7_ParentSlot ==
    mode = "context" =>
        \A i \in DOMAIN ctx :
            ctx[i].parent_analysis = ExpectedSlot(all_nodes[i], id_to_node(all_nodes))

\* the slot holds a parent's text with its surrounding whitespace kept
C7_Witness ==
    /\ mode = "context"
    /\ \E i \in DOMAIN ctx :
        /\ HasParentId(all_nodes[i])
        /\ all_nodes[i].parent[1] \in DOMAIN id_to_node(all_nodes)
        /\ ctx[i].parent_analysis = <<" ", "x">>

(***************************************************************************)
(* C8. The analysis prompt assembled for a node and sent to the completion *)
(* service contains the node's plan, code and run-analysis in their named  *)
(* delimited sections, plus the parent's prior analysis (or the sentinel   *)
(* "No parent node" when there is no usable parent).                       *)
(***************************************************************************)
FieldText(node, key) == IF node[key] = <<>> THEN <<>> ELSE node[key][1]

Delimited(tag, body) == <<"<" \o tag \o ">\n">> \o body \o <<"\n", "</" \o tag \o ">\n">>

\* everything the request carries: the developer instruction, then the user prompt
SentText(c) == c.request.developer \o c.request.user

\* C8: the prompt sent holds the three sections and the parent-analysis slot
C8_PromptHoldsSectionsAndParent ==
    mode = "context" =>
        \A i \in DOMAIN ctx :
            /\ IsInfix(Delimited("plan", FieldText(all_nodes[i], "plan")), SentText(ctx[i]))
            /\ IsInfix(Delimited("code", FieldText(all_nodes[i], "code")), SentText(ctx[i]))
            /\ IsInfix(Delimited("run_analysis", FieldText(all_nodes[i], "analysis")),
                       SentText(ctx[i]))
            /\ IsInfix(ExpectedSlot(all_nodes[i], id_to_node(all_nodes)), SentText(ctx[i]))

\* the three sections alone are always in the prompt
C8_SectionsOnly ==
    mode = "context" =>
        \A i \in DOMAIN ctx :
            /\ IsInfix(Delimited("plan", FieldText(all_nodes[i], "plan")), SentText(ctx[i]))
            /\ IsInfix(Delimited("code", FieldText(all_nodes[i], "code")), SentText(ctx[i]))
            /\ IsInfix(Delimited("run_analysis", FieldText(all_nodes[i], "analysis")),
                       SentText(ctx[i]))

(***************************************************************************)
(* C9. For a tree of N nodes with unique identifiers: when maxNodes > 0    *)
(* and N > maxNodes, exactly maxNodes distinct nodes are submitted;        *)
(* otherwise exactly all N nodes are. In either case no node is submitted  *)
(* or processed more than once, and every submitted node is a node of the  *)
(* input tree.                                                             *)
(***************************************************************************)
UniqueIds(nodes) == \A i, j \in DOMAIN nodes : i # j => NodeId(nodes[i]) # NodeId(nodes[j])

SubmittedIds == {NodeId(NodeOf(u)) : u \in Units}

\* C9: maxNodes distinct nodes are sampled, or all N submitted; none twice
C9_Selection ==
    (mode = "analyze" /\ pc # "start" /\ UniqueIds(all_nodes)) =>
        LET n == Len(all_nodes)
            sampled == args.max_nodes > 0 /\ n > args.max_nodes
        IN /\ Cardinality(Units) = Len(nodes_to_process)
           /\ sampled => /\ Len(nodes_to_process) = args.max_nodes
                         /\ Cardinality(SubmittedIds) = args.max_nodes
           /\ ~sampled => /\ Len(nodes_to_process) = n
                          /\ SubmittedIds = {NodeId(all_nodes[i]) : i \in DOMAIN all_nodes}
           /\ \A u \in Units : nodes_to_process[u] \in DOMAIN all_nodes
           /\ \A u, v \in Units : u # v => NodeId(NodeOf(u)) # NodeId(NodeOf(v))
           /\ \A j, k \in DOMAIN consumed :
                j # k => NodeId(NodeOf(consumed[j])) # NodeId(NodeOf(consumed[k]))
           /\ \A j, k \in DOMAIN completed : j # k => completed[j] # completed[k]

\* two of three nodes were sampled, out of tree order, and both were processed
C9_Witness ==
    /\ mode = "analyze"
    /\ pc = "done"
    /\ UniqueIds(all_nodes)
    /\ Len(all_nodes) = 3
    /\ args.max_nodes = 2
    /\ nodes_to_process = <<3, 1>>
    /\ Len(consumed) = 2

(***************************************************************************)
(* C10. When a node-analysis run terminates, the node directories holding  *)
(* an input/output pair written by the run are exactly the identifiers of  *)
(* the selected nodes; each pair is written only after that node's result  *)
(* has arrived, the input holding the composed prompt (system instruction  *)
(* + user prompt) and the output holding that node's response text (or its *)
(* recorded error text).                                                   *)
(***************************************************************************)
\* the composed prompt of a unit, from the request it sent
ComposedPrompt(u) ==
    <<"System Prompt:\n">> \o ctx[u].request.developer \o <<"\n\n", "User Prompt:\n">>
        \o ctx[u].request.user \o <<"\n">>

\* the text the unit's call ended with
ResponseText(u) ==
    IF reply[u].raised THEN <<"ERROR during analysis: ">> \o reply[u].cause
    ELSE IF reply[u].response.output_text # <<>> THEN reply[u].response.output_text[1]
    ELSE reply[u].response.dump

\* C10: written directories are the selected identifiers, each holding prompt and response
C10_ArtifactPairs ==
    mode = "analyze" =>
        /\ \A d \in DOMAIN fs :
            \E u \in Units :
                /\ NodeId(NodeOf(u)) = d
                /\ u \in DOMAIN reply
                /\ u \in Range(consumed)
                /\ fs[d] = [input |-> ComposedPrompt(u), output |-> ResponseText(u)]
        /\ \A u \in Range(consumed) : NodeId(NodeOf(u)) \in DOMAIN fs
        /\ pc = "done" => DOMAIN fs = SubmittedIds

\* a finished run that wrote three directories, one of them with an error text
C10_Witness ==
    /\ mode = "analyze"
    /\ pc = "done"
    /\ Cardinality(DOMAIN fs) = 3
    /\ Failed # {}
    /\ Succeeded # {}

(***************************************************************************)
(* C11. Artifact writes of one node-analysis run are non-overlapping: no   *)
(* two submitted units cause a write to the same node directory, so no     *)
(* pair written during a run is overwritten later in the same run. The    *)
(* directory is named by NodeId alone, so the statement depends on the     *)
(* identifiers of the tree: it fails for a tree in which two nodes carry   *)
(* the same identifier, and holds when every node carries its own.         *)
(***************************************************************************)
\* every node has an "id" field and no two nodes have the same one
DistinctIds(nodes) ==
    /\ \A i \in DOMAIN nodes : nodes[i].id # <<>>
    /\ \A i, j \in DOMAIN nodes : i # j => nodes[i].id # nodes[j].id

\* the step takes the result of unit u and writes its pair (main_async, 192-209)
WritesPairOf(u) == mode = "analyze" /\ consumed' = Append(consumed, u)

\* the step writes into a directory no earlier step wrote, and leaves the others alone
FreshWrite(u) ==
    /\ NodeId(NodeOf(u)) \notin DOMAIN fs
    /\ \A v \in Range(consumed) : NodeId(NodeOf(v)) # NodeId(NodeOf(u))
    /\ \A d \in DOMAIN fs : d \in DOMAIN fs' /\ fs'[d] = fs[d]

\* C11: as stated, for every tree: no write of a run lands on a path already written
C11_Original == [][\A u \in Units : WritesPairOf(u) => FreshWrite(u)]_vars

\* C11: for a tree with distinct identifiers, no write lands on a path already written
C11_Amended ==
    [][\A u \in Units : (DistinctIds(all_nodes) /\ WritesPairOf(u)) => FreshWrite(u)]_vars

\* three nodes with distinct identifiers, written out of submission order
C11_Witness ==
    /\ mode = "analyze"
    /\ pc = "done"
    /\ DistinctIds(all_nodes)
    /\ Len(consumed) = 3
    /\ consumed # Identity(3)
    /\ Cardinality(DOMAIN fs) = 3

(***************************************************************************)
(* classify_feedbacks.py: collect_feedbacks.                               *)
(*                                                                         *)
(* A directory is the sequence of its sub-directories in os.listdir order  *)
(* (any order, names distinct); a sub-directory has a name, an optional    *)
(* output.txt and, one level below the root, sub-directories of its own.   *)
(* The tree is what earlier runs left under the path: it grows one         *)
(* directory at a time until collect_feedbacks reads it.                   *)
(***************************************************************************)
\* code point of a character
Ord(c) ==
    CASE c = " " -> 32 [] c = "1" -> 49 [] c = "2" -> 50 [] c = "A" -> 65 [] c = "B" -> 66
      [] c = "a" -> 97 [] c = "b" -> 98 [] c = "n" -> 110 [] c = "x" -> 120

\* s < t on str: the first differing character decides, a proper prefix is smaller
StrLess(s, t) ==
    \E k \in 1..(Min(Len(s), Len(t)) + 1) :
        /\ \A j \in 1..(k - 1) : s[j] = t[j]
        /\ \/ k > Len(s) /\ k <= Len(t)
           \/ k <= Len(s) /\ k <= Len(t) /\ Ord(s[k]) < Ord(t[k])

DirNames == {<<"n", "1">>, <<"n", "2">>}

\* what output.txt can hold
CollectTexts == {<<>>, <<" ">>, <<" ", "x">>}

\* an output.txt whose open() or read() raises
Unreadable == [readable |-> FALSE, text |-> <<>>]

OutputFiles == {Unreadable} \cup {[readable |-> TRUE, text |-> t] : t \in CollectTexts}

\* sub-directories of the feedback tree, both levels together
RECURSIVE DirCount(_)
DirCount(listing) ==
    IF listing = <<>> THEN 0
    ELSE 1 + Len(Head(listing).sub) + DirCount(Tail(listing))

NamesIn(listing) == {listing[i].name : i \in DOMAIN listing}

\* gather_candidates_at(path): (node_id, output_path) of each sub-directory with an output.txt
RECURSIVE gather_candidates_at(_)
gather_candidates_at(listing) ==
    IF listing = <<>> THEN <<>>
    ELSE LET d == Head(listing)
         IN (IF d.output # <<>> THEN <<[node_id |-> d.name, file |-> d.output[1]]>> ELSE <<>>)
                \o gather_candidates_at(Tail(listing))

\* lines 59-65: the candidates of every sub-directory of the root, in listing order
RECURSIVE nested_candidates(_)
nested_candidates(listing) ==
    IF listing = <<>> THEN <<>>
    ELSE gather_candidates_at(Head(listing).sub) \o nested_candidates(Tail(listing))

always_nested(root) ==
    gather_candidates_at(root.listing) \o nested_candidates(root.listing)

\* lines 53-65: the immediate candidates, or, when there are none, the nested ones
find_candidates(root) ==
    LET candidates == gather_candidates_at(root.listing)
    IN IF candidates = <<>> THEN nested_candidates(root.listing) ELSE candidates

in_listing_order(cands) == cands

\* candidates.sort(key=lambda t: t[0]): stable, by node_id
RECURSIVE sort_by_node_id(_)
sort_by_node_id(cands) ==
    IF cands = <<>> THEN <<>>
    ELSE LET n == Len(cands)
             e == cands[n]
             rest == sort_by_node_id(SubSeq(cands, 1, n - 1))
             k == Cardinality({i \in DOMAIN rest : ~StrLess(e.node_id, rest[i].node_id)})
         IN SubSeq(rest, 1, k) \o <<e>> \o SubSeq(rest, k + 1, Len(rest))

RECURSIVE read_feedbacks_without_errors(_)
read_feedbacks_without_errors(cands) ==
    IF cands = <<>> THEN <<>>
    ELSE LET c == Head(cands)
             feedback_text == strip(c.file.text)
         IN (IF /\ c.file.readable
                /\ feedback_text # <<>>
                /\ Head(feedback_text) # "ERROR during analysis: "
             THEN << <<c.node_id, feedback_text>> >> ELSE <<>>)
                \o read_feedbacks_without_errors(Tail(cands))

\* lines 69-79: read and strip each candidate; keep the non-empty ones, skip a failed read
RECURSIVE read_feedbacks(_)
read_feedbacks(cands) ==
    IF cands = <<>> THEN <<>>
    ELSE LET c == Head(cands)
             feedback_text == strip(c.file.text)
         IN (IF c.file.readable /\ feedback_text # <<>>
             THEN << <<c.node_id, feedback_text>> >> ELSE <<>>)
                \o read_feedbacks(Tail(cands))

collect_feedbacks_unchecked(root) ==
    [raised |-> "", collected |-> read_feedbacks(sort_by_node_id(find_candidates(root)))]

\* collect_feedbacks(feedback_root_path): the sorted non-empty feedbacks, or the error raised
collect_feedbacks(root) ==
    IF ~root.is_dir THEN [raised |-> "FileNotFoundError", collected |-> <<>>]
    ELSE LET collected == read_feedbacks(sort_by_node_id(find_candidates(root)))
         IN IF collected = <<>> THEN [raised |-> "RuntimeError", collected |-> <<>>]
            ELSE [raised |-> "", collected |-> collected]

InitCollect ==
    /\ mode = "collect"
    /\ feedback_root \in {[is_dir |-> d, listing |-> <<>>] : d \in BOOLEAN}
    /\ taxonomy_path = <<>>
    /\ all_nodes = <<>>
    /\ args = NoArgs
    /\ feedbacks = <<>>
    /\ pc = "start"
    /\ final_result = <<>>
    /\ NoRun
    /\ input_files = <<>>
    /\ ignore_errors = FALSE
    /\ taxonomy_to_items = <<>>
    /\ taxonomy_to_seen = <<>>
    /\ files_read = 0

\* before the call: one more directory under the root, listed after the others
make_directory ==
    /\ mode = "collect"
    /\ pc = "start"
    /\ feedback_root.is_dir
    /\ DirCount(feedback_root.listing) < MaxDirs
    /\ \E name \in DirNames \ NamesIn(feedback_root.listing), o \in Opt(OutputFiles) :
        feedback_root' =
            [feedback_root EXCEPT
                !.listing = Append(@, [name |-> name, output |-> o, sub |-> <<>>])]
    /\ UNCHANGED <<mode, all_nodes, args, feedbacks, input_files, ignore_errors, merger, run,
                   pc, final_result, taxonomy_path>>

\* before the call: one more directory inside the directory listed last under the root
make_nested_directory ==
    /\ mode = "collect"
    /\ pc = "start"
    /\ feedback_root.is_dir
    /\ feedback_root.listing # <<>>
    /\ DirCount(feedback_root.listing) < MaxDirs
    /\ LET g == Len(feedback_root.listing)
       IN \E name \in DirNames \ NamesIn(feedback_root.listing[g].sub),
             o \in Opt(OutputFiles) :
            feedback_root' =
                [feedback_root EXCEPT
                    !.listing[g].sub = Append(@, [name |-> name, output |-> o])]
    /\ UNCHANGED <<mode, all_nodes, args, feedbacks, input_files, ignore_errors, merger, run,
                   pc, final_result, taxonomy_path>>

\* main, line 320: feedbacks = collect_feedbacks(args.feedback_path); an error ends main
main_collect ==
    /\ mode = "collect"
    /\ pc = "start"
    /\ LET r == collect_feedbacks(feedback_root)
       IN /\ pc' = IF r.raised = "" THEN "collected" ELSE r.raised
          /\ feedbacks' = r.collected
    /\ UNCHANGED <<mode, all_nodes, args, feedback_root, input_files, ignore_errors, merger,
                   run, final_result, taxonomy_path>>

NextCollect ==
    \/ make_directory
    \/ make_nested_directory
    \/ main_collect

SpecCollect == InitCollect /\ [][NextCollect]_vars

(***************************************************************************)
(* Shared notions of the claims on collect_feedbacks.                      *)
(***************************************************************************)
\* the output.txt files of the tree, by position: <<i>> in the i-th directory under the
\* root, <<i, j>> in the j-th directory of the i-th
ImmediateArtifacts ==
    {<<i>> : i \in {k \in DOMAIN feedback_root.listing : feedback_root.listing[k].output # <<>>}}

NestedArtifacts ==
    UNION {{<<i, j>> : j \in {k \in DOMAIN feedback_root.listing[i].sub :
                                feedback_root.listing[i].sub[k].output # <<>>}} :
           i \in DOMAIN feedback_root.listing}

DirAt(p) ==
    IF Len(p) = 1 THEN feedback_root.listing[p[1]]
    ELSE feedback_root.listing[p[1]].sub[p[2]]

\* the artifact can be read and holds more than whitespace
HasFeedback(p) == DirAt(p).output[1].readable /\ strip(DirAt(p).output[1].text) # <<>>

\* the item an artifact yields: the name of its directory and its trimmed text
ItemOf(p) == <<DirAt(p).name, strip(DirAt(p).output[1].text)>>

\* the call returned
Collected == mode = "collect" /\ pc = "collected"

\* the call returned or raised
CollectEnded == mode = "collect" /\ pc # "start"

(***************************************************************************)
(* C12. collect(root) returns a list sorted in non-decreasing              *)
(* lexicographic order of node_id that contains exactly the discovered     *)
(* output artifacts whose text is non-empty after trimming; an artifact    *)
(* that is empty, whitespace-only or unreadable yields no item.            *)
(***************************************************************************)
\* the artifacts of the level the scan settles on
Discovered == IF ImmediateArtifacts # {} THEN ImmediateArtifacts ELSE NestedArtifacts

\* how often item v occurs in the returned list
Occurrences(v) == Cardinality({k \in DOMAIN feedbacks : feedbacks[k] = v})

\* C12: the returned list is sorted by node_id and holds exactly the non-empty artifacts
C12_SortedNonEmptyItems ==
    Collected =>
        /\ \A k \in 1..(Len(feedbacks) - 1) : ~StrLess(feedbacks[k + 1][1], feedbacks[k][1])
        /\ \A k \in DOMAIN feedbacks : feedbacks[k][2] # <<>>
        /\ Len(feedbacks) = Cardinality({p \in Discovered : HasFeedback(p)})
        /\ \A p \in Discovered :
            HasFeedback(p) =>
                Occurrences(ItemOf(p)) =
                    Cardinality({q \in Discovered : HasFeedback(q) /\ ItemOf(q) = ItemOf(p)})

\* two items returned in an order other than the listing's, a blank artifact left out
C12_Witness ==
    /\ Collected
    /\ Len(feedbacks) = 2
    /\ feedbacks # read_feedbacks(find_candidates(feedback_root))
    /\ \E p \in Discovered : DirAt(p).output[1].readable /\ ~HasFeedback(p)

(***************************************************************************)
(* C13. collect(root) scans one directory level deeper if and only if no   *)
(* output artifact exists in any immediate child directory of root; when   *)
(* at least one immediate-child artifact exists, nested artifacts are      *)
(* never included, and when the fallback is taken the artifacts of all     *)
(* groups are flattened into one list.                                     *)
(***************************************************************************)
\* the items of the returned list are those of the artifacts in paths, no more and no fewer
ItemsComeFrom(paths) ==
    /\ Len(feedbacks) = Cardinality({p \in paths : HasFeedback(p)})
    /\ \A k \in DOMAIN feedbacks : \E p \in paths : HasFeedback(p) /\ feedbacks[k] = ItemOf(p)
    /\ \A p \in paths : HasFeedback(p) => \E k \in DOMAIN feedbacks : feedbacks[k] = ItemOf(p)

\* C13: nested artifacts are used exactly when no immediate artifact exists, all groups alike
C13_FallbackOneLevelDeeper ==
    (CollectEnded /\ feedback_root.is_dir) =>
        /\ ImmediateArtifacts # {} => ItemsComeFrom(ImmediateArtifacts)
        /\ ImmediateArtifacts = {} => ItemsComeFrom(NestedArtifacts)

\* no immediate artifact, and the returned list holds feedback of two different groups
C13_Witness ==
    /\ Collected
    /\ ImmediateArtifacts = {}
    /\ \E p, q \in NestedArtifacts : p[1] # q[1] /\ HasFeedback(p) /\ HasFeedback(q)
    /\ Len(feedbacks) >= 2

(***************************************************************************)
(* C14. collect(root) fails with a not-found error when root is not an     *)
(* existing directory, and fails with a RuntimeError when zero non-empty   *)
(* feedback items were found anywhere (neither as immediate children nor   *)
(* one level deeper); it never returns an empty list.                      *)
(***************************************************************************)
\* no artifact of either level holds feedback
NoFeedbackAnywhere == \A p \in ImmediateArtifacts \cup NestedArtifacts : ~HasFeedback(p)

\* C14: not a directory raises FileNotFoundError, no feedback anywhere raises RuntimeError,
\* and a returned list is never empty
C14_FailsRatherThanEmpty ==
    CollectEnded =>
        /\ ~feedback_root.is_dir => pc = "FileNotFoundError"
        /\ (feedback_root.is_dir /\ NoFeedbackAnywhere) => pc = "RuntimeError"
        /\ pc = "collected" => feedbacks # <<>>
        /\ pc # "collected" => feedbacks = <<>>

\* blank or unreadable artifacts on both levels, and the call raised RuntimeError
C14_Witness ==
    /\ mode = "collect"
    /\ pc = "RuntimeError"
    /\ ImmediateArtifacts # {}
    /\ NestedArtifacts # {}
    /\ NoFeedbackAnywhere

(***************************************************************************)
(* classify_feedbacks.py: run_batches.chunks on its own, for any list and  *)
(* any --batch-size.                                                       *)
(***************************************************************************)
\* lists of (node_id, feedback_text) pairs of every length from 0, in any arrangement
AnyFeedbackLists ==
    UNION {{[i \in 1..n |-> Feedback(f[i])] : f \in [1..n -> 1..MaxFeedbacks]} :
           n \in 0..MaxFeedbacks}

InitChunks ==
    /\ mode = "chunks"
    /\ feedbacks \in AnyFeedbackLists
    /\ args \in [concurrency : {0}, max_nodes : {0}, batch_size : 0..(MaxBatch + 2),
                 max_concurrency : {0}]
    /\ all_nodes = <<>>
    /\ pc = "start"
    /\ final_result = <<>>
    /\ NoRun
    /\ NoCollectOrMerge

\* run_batches, line 347: chunks(feedbacks, max(1, args.batch_size))
run_batches_chunks ==
    /\ mode = "chunks"
    /\ pc = "start"
    /\ batches' = chunks(feedbacks, Max(1, args.batch_size))
    /\ pc' = "chunked"
    /\ UNCHANGED <<config, merger, nodes_to_process, task, sem, waiters, ctx, outcome,
                   completed, consumed, fs, final_result, reply, stalled>>

NextChunks == run_batches_chunks

SpecChunks == InitChunks /\ [][NextChunks]_vars

(***************************************************************************)
(* C15. For every feedback list of length N >= 0 and batch size B >= 1,    *)
(* batching is order-preserving and exhaustive: concatenating the batches  *)
(* in order reconstructs the original list, there are ceil(N/B) batches,   *)
(* every batch but the last has exactly B items, and the last has N mod B  *)
(* items (B if N is a positive multiple of B).                             *)
(***************************************************************************)
RECURSIVE Concatenation(_)
Concatenation(lists) ==
    IF lists = <<>> THEN <<>> ELSE Head(lists) \o Concatenation(Tail(lists))

\* C15: the batches concatenate to the list; ceil(N/B) of them, all of B items but the last
C15_BatchingExhaustive ==
    (mode = "chunks" /\ pc = "chunked") =>
        LET N == Len(feedbacks)
            B == Max(1, args.batch_size)
            m == Len(batches)
        IN /\ Concatenation(batches) = feedbacks
           /\ m * B >= N /\ (m - 1) * B < N
           /\ \A k \in 1..(m - 1) : Len(batches[k]) = B
           /\ m > 0 => Len(batches[m]) = IF N % B = 0 THEN B ELSE N % B

\* three feedbacks in batches of two: a full batch and a remainder of one
C15_Witness ==
    /\ mode = "chunks"
    /\ pc = "chunked"
    /\ Len(feedbacks) = 3
    /\ args.batch_size = 2
    /\ Len(batches) = 2
    /\ Len(batches[2]) = 1

(***************************************************************************)
(* C16. Every classification entry in the TaxonomyFile produced by the     *)
(* classifier has a level1 value that belongs to the taxonomy's known      *)
(* level1 set: a batch response containing an entry with an unknown level1 *)
(* is rejected at the client boundary and never passes through into the    *)
(* output. call_gpt_async sends the enum in the request schema and returns *)
(* json.loads of the answer as it is, so the statement does not hold.      *)
(***************************************************************************)
\* the entries of a batch result or of the final payload carry a known level1
KnownLevel1(payload) ==
    \A k \in DOMAIN dget(payload, "classifications", <<>>) :
        dget(payload, "classifications", <<>>)[k].level1 \in Range(level1_categories)

\* C16: no entry with a level1 outside the taxonomy leaves call_gpt_async or reaches the output
C16_Level1Known ==
    mode = "classify" =>
        /\ \A b \in DOMAIN outcome : KnownLevel1(outcome[b].val)
        /\ pc = "done" => KnownLevel1(final_result)

(***************************************************************************)
(* C17. The TaxonomyFile produced by classify has taxonomy_name equal to   *)
(* the name in the taxonomy definition (whatever name a batch response     *)
(* carries), and its classifications are exactly the concatenation of the  *)
(* classification lists of all batch results: every entry returned by any  *)
(* batch appears as many times as it was returned, and no other entry      *)
(* appears.                                                                *)
(***************************************************************************)
\* the classification list of the result of batch b
BatchEntries(b) == dget(outcome[b].val, "classifications", <<>>)

\* how often entry e occurs in list l
CountIn(e, l) == Cardinality({k \in DOMAIN l : l[k] = e})

RECURSIVE SumOver(_, _)
SumOver(f, S) ==
    IF S = {} THEN 0
    ELSE LET x == CHOOSE y \in S : TRUE IN f[x] + SumOver(f, S \ {x})

\* C17: the output is named after the taxonomy and holds the batch lists end to end
C17_NameAndConcatenation ==
    (mode = "classify" /\ pc = "done") =>
        /\ DOMAIN final_result = {"taxonomy_name", "classifications"}
        /\ final_result.taxonomy_name = taxonomy_name
        /\ final_result.classifications =
            Concatenation([b \in 1..Len(batches) |-> BatchEntries(b)])
        /\ \A e \in {EntryA, EntryB} :
            CountIn(e, final_result.classifications) =
                SumOver([b \in Units |-> CountIn(e, BatchEntries(b))], Units)
        /\ \A k \in DOMAIN final_result.classifications :
            final_result.classifications[k] \in {EntryA, EntryB}

\* two batches answered, one under another taxonomy name; the entry both returned is there twice
C17_Witness ==
    /\ mode = "classify"
    /\ pc = "done"
    /\ Len(batches) = 2
    /\ \E b \in Units : dget(outcome[b].val, "taxonomy_name", "") = "U"
    /\ \E b \in Units : dget(outcome[b].val, "taxonomy_name", "") = "T" /\ BatchEntries(b) # <<>>
    /\ CountIn(EntryA, final_result.classifications) = 2
    /\ final_result.taxonomy_name = "T"

(***************************************************************************)
(* merge_taxonomies.py: merge_taxonomies.                                  *)
(*                                                                         *)
(* A JSON object is a function on its keys; a JSON value that is not an    *)
(* object is a record with the single field "scalar". A string is the      *)
(* sequence of its characters. A field that is present holds a value of    *)
(* the JSON type the schema names.                                         *)
(***************************************************************************)
AnyValue(v) == TRUE

IsDict(v) == "scalar" \notin DOMAIN v

\* is_taxonomy_file(payload)
is_taxonomy_file(payload) ==
    /\ IsDict(payload)
    /\ "taxonomy_name" \in DOMAIN payload
    /\ "classifications" \in DOMAIN payload

\* str.lower()
LowerChar(c) == CASE c = "A" -> "a" [] c = "B" -> "b" [] OTHER -> c
lower(s) == [i \in DOMAIN s |-> LowerChar(s[i])]

\* entries a classification list may hold
Entry1 == [issue |-> <<"b">>, node_id |-> <<"n", "1">>, level1 |-> <<"Bugs">>,
           level2 |-> <<"OffByOne">>]
\* the issue of Entry1 in another case
Entry2 == [issue |-> <<"B">>, node_id |-> <<"n", "1">>, level1 |-> <<"Bugs">>,
           level2 |-> <<"OffByOne">>]
\* a smaller issue under a larger node_id
Entry3 == [issue |-> <<"a">>, node_id |-> <<"n", "2">>, level1 |-> <<"Perf">>,
           level2 |-> <<"Uncategorized">>]
\* an object without level2, and an element that is no object
EntryNoLevel2 == [issue |-> <<"b">>, node_id |-> <<"n", "1">>, level1 |-> <<"Bugs">>]
EntryScalar == [scalar |-> "text"]

FullEntries == {Entry1, Entry2, Entry3}
OddEntries == {EntryNoLevel2, EntryScalar}

TaxonomyFile(name, items) == [taxonomy_name |-> name, classifications |-> items]

\* the aggregate shape, as a merge of two taxonomies writes it
AggregateFile ==
    [taxonomies |-> <<TaxonomyFile(<<"A">>, <<Entry1>>), TaxonomyFile(<<"B">>, <<Entry3>>)>>]

ClassificationLists ==
    {<<>>} \cup {<<e>> : e \in FullEntries \cup OddEntries}
        \cup {<<e, f>> : e \in FullEntries, f \in FullEntries}
        \cup {<<EntryScalar, EntryNoLevel2>>}

\* what an input path can hold: a file load_json cannot read, or parsed JSON
InputFiles ==
    {[loads |-> FALSE, data |-> [scalar |-> "unparsable"]]}
        \cup {[loads |-> TRUE, data |-> d] :
                d \in {AggregateFile}
                    \cup {TaxonomyFile(<<"A">>, l) : l \in ClassificationLists}
                    \cup {TaxonomyFile(<<"B">>, l) : l \in {<<>>, <<Entry1>>, <<Entry3>>}}}

\* (node_id, issue, level1, level2), a missing field read as ""
EntryKey(entry) ==
    <<dget(entry, "node_id", <<>>), dget(entry, "issue", <<>>),
      dget(entry, "level1", <<>>), dget(entry, "level2", <<>>)>>

no_dedup(acc, entries) ==
    [items |-> acc.items \o SelectSeq(entries, IsDict),
     seen |-> acc.seen \cup {EntryKey(entries[i]) : i \in {k \in DOMAIN entries : IsDict(entries[k])}}]

\* lines 72-83: keep each object whose key was not seen under this taxonomy name
RECURSIVE merge_entries(_, _)
merge_entries(acc, entries) ==
    IF entries = <<>> THEN acc
    ELSE LET entry == Head(entries)
         IN IF ~IsDict(entry) \/ EntryKey(entry) \in acc.seen
            THEN merge_entries(acc, Tail(entries))
            ELSE merge_entries([items |-> Append(acc.items, entry),
                                seen |-> acc.seen \cup {EntryKey(entry)}], Tail(entries))

merge_valid_one_seen_set(items, seen, data) ==
    LET tname == data.taxonomy_name
        known == tname \in DOMAIN items
        r == merge_entries([items |-> IF known THEN items[tname] ELSE <<>>,
                            seen |-> UNION {seen[t] : t \in DOMAIN seen}],
                           data.classifications)
    IN [items |-> [t \in DOMAIN items \cup {tname} |-> IF t = tname THEN r.items ELSE items[t]],
        seen |-> [t \in DOMAIN seen \cup {tname} |-> IF t = tname THEN r.seen ELSE seen[t]]]

merge_valid_replacing(items, seen, data) ==
    LET tname == data.taxonomy_name
        r == merge_entries([items |-> <<>>, seen |-> {}], data.classifications)
    IN [items |-> [t \in DOMAIN items \cup {tname} |-> IF t = tname THEN r.items ELSE items[t]],
        seen |-> [t \in DOMAIN seen \cup {tname} |-> IF t = tname THEN r.seen ELSE seen[t]]]

merge_valid_unless_empty(items, seen, data) ==
    IF data.classifications = <<>> THEN [items |-> items, seen |-> seen]
    ELSE LET tname == data.taxonomy_name
             known == tname \in DOMAIN items
             r == merge_entries([items |-> IF known THEN items[tname] ELSE <<>>,
                                 seen |-> IF known THEN seen[tname] ELSE {}],
                                data.classifications)
         IN [items |-> [t \in DOMAIN items \cup {tname} |->
                            IF t = tname THEN r.items ELSE items[t]],
             seen |-> [t \in DOMAIN seen \cup {tname} |->
                            IF t = tname THEN r.seen ELSE seen[t]]]

\* lines 65-83: the entries of one validated file, added under its taxonomy name
merge_valid(items, seen, data) ==
    LET tname == data.taxonomy_name
        known == tname \in DOMAIN items
        r == merge_entries([items |-> IF known THEN items[tname] ELSE <<>>,
                            seen |-> IF known THEN seen[tname] ELSE {}],
                           data.classifications)
    IN [items |-> [t \in DOMAIN items \cup {tname} |-> IF t = tname THEN r.items ELSE items[t]],
        seen |-> [t \in DOMAIN seen \cup {tname} |-> IF t = tname THEN r.seen ELSE seen[t]]]

\* the key of line 90: (node_id, issue.lower()), compared as a tuple of strings
SortKeyLess(a, b) ==
    LET na == dget(a, "node_id", <<>>)
        nb == dget(b, "node_id", <<>>)
    IN \/ StrLess(na, nb)
       \/ na = nb /\ StrLess(lower(dget(a, "issue", <<>>)), lower(dget(b, "issue", <<>>)))

in_insertion_order(items) == items

in_reverse_order(items) == [i \in DOMAIN items |-> items[Len(items) + 1 - i]]

\* items.sort(key=...): stable
RECURSIVE sort_items(_)
sort_items(items) ==
    IF items = <<>> THEN <<>>
    ELSE LET n == Len(items)
             e == items[n]
             rest == sort_items(SubSeq(items, 1, n - 1))
             k == Cardinality({i \in DOMAIN rest : ~SortKeyLess(e, rest[i])})
         IN SubSeq(rest, 1, k) \o <<e>> \o SubSeq(rest, k + 1, Len(rest))

\* sorted(taxonomy_to_items.keys())
RECURSIVE sorted_names(_)
sorted_names(names) ==
    IF names = {} THEN <<>>
    ELSE LET first == CHOOSE x \in names : \A y \in names \ {x} : StrLess(x, y)
         IN <<first>> \o sorted_names(names \ {first})

always_aggregate(items) ==
    LET names == sorted_names(DOMAIN items)
    IN [taxonomies |-> [k \in DOMAIN names |-> TaxonomyFile(names[k], items[names[k]])]]

\* lines 92-103: one taxonomy keeps the single shape, several go under "taxonomies"
merge_result(items) ==
    IF Cardinality(DOMAIN items) = 1
    THEN LET tname == CHOOSE t \in DOMAIN items : TRUE IN TaxonomyFile(tname, items[tname])
    ELSE LET names == sorted_names(DOMAIN items)
         IN [taxonomies |-> [k \in DOMAIN names |-> TaxonomyFile(names[k], items[names[k]])]]

\* lines 85-103: what merge_taxonomies returns or raises once the loop is over
merge_end(items) ==
    IF DOMAIN items = {} THEN [raised |-> "RuntimeError", result |-> <<>>]
    ELSE [raised |-> "", result |-> merge_result([t \in DOMAIN items |-> sort_items(items[t])])]

\* lines 52-83: the loop over the input paths, from the accumulators given
RECURSIVE merge_loop(_, _, _, _)
merge_loop(items, seen, files, ignore) ==
    IF files = <<>> THEN merge_end(items)
    ELSE LET file == Head(files)
         IN IF ~file.loads
            THEN IF ignore THEN merge_loop(items, seen, Tail(files), ignore)
                 ELSE [raised |-> "JSONDecodeError", result |-> <<>>]
            ELSE IF ~is_taxonomy_file(file.data)
            THEN IF ignore THEN merge_loop(items, seen, Tail(files), ignore)
                 ELSE [raised |-> "ValueError", result |-> <<>>]
            ELSE LET r == merge_valid(items, seen, file.data)
                 IN merge_loop(r.items, r.seen, Tail(files), ignore)

\* merge_taxonomies(input_files, ignore_errors)
merge_taxonomies(files, ignore) == merge_loop(<<>>, <<>>, files, ignore)

InitMerge ==
    /\ mode = "merge"
    /\ input_files \in UNION {[1..n -> InputFiles] : n \in 0..MaxFiles}
    /\ ignore_errors \in BOOLEAN
    /\ taxonomy_to_items = <<>>
    /\ taxonomy_to_seen = <<>>
    /\ files_read = 0
    /\ feedback_root = <<>>
    /\ taxonomy_path = <<>>
    /\ all_nodes = <<>>
    /\ args = NoArgs
    /\ feedbacks = <<>>
    /\ pc = "start"
    /\ final_result = <<>>
    /\ NoRun

\* the loop is at the next input path
AtFile(file) ==
    /\ mode = "merge"
    /\ pc = "start"
    /\ files_read < Len(input_files)
    /\ file = input_files[files_read + 1]

\* lines 53-58: load_json raises; skipped under --ignore-errors, raised again otherwise
merge_load_error ==
    /\ \E file \in InputFiles : AtFile(file) /\ ~file.loads
    /\ IF ignore_errors
       THEN files_read' = files_read + 1 /\ pc' = pc
       ELSE files_read' = files_read /\ pc' = "JSONDecodeError"
    /\ UNCHANGED <<config, run, taxonomy_to_items, taxonomy_to_seen, final_result>>

merge_invalid_file_skipped ==
    /\ \E file \in InputFiles : AtFile(file) /\ file.loads /\ ~is_taxonomy_file(file.data)
    /\ files_read' = files_read + 1
    /\ UNCHANGED <<config, run, pc, taxonomy_to_items, taxonomy_to_seen, final_result>>

\* lines 60-63: the payload is no taxonomy file; skipped, or ValueError
merge_invalid_file ==
    /\ \E file \in InputFiles : AtFile(file) /\ file.loads /\ ~is_taxonomy_file(file.data)
    /\ IF ignore_errors
       THEN files_read' = files_read + 1 /\ pc' = pc
       ELSE files_read' = files_read /\ pc' = "ValueError"
    /\ UNCHANGED <<config, run, taxonomy_to_items, taxonomy_to_seen, final_result>>

\* lines 65-83: a validated file
merge_valid_file ==
    /\ \E file \in InputFiles :
        /\ AtFile(file)
        /\ file.loads
        /\ is_taxonomy_file(file.data)
        /\ LET r == merge_valid(taxonomy_to_items, taxonomy_to_seen, file.data)
           IN /\ taxonomy_to_items' = r.items
              /\ taxonomy_to_seen' = r.seen
    /\ files_read' = files_read + 1
    /\ UNCHANGED <<config, run, pc, final_result>>

\* lines 85-103: after the last path
merge_finish ==
    /\ mode = "merge"
    /\ pc = "start"
    /\ files_read = Len(input_files)
    /\ LET r == merge_end(taxonomy_to_items)
       IN /\ pc' = IF r.raised = "" THEN "done" ELSE r.raised
          /\ final_result' = r.result
    /\ UNCHANGED <<config, run, merger>>

NextMerge ==
    \/ merge_load_error
    \/ merge_invalid_file
    \/ merge_valid_file
    \/ merge_finish

SpecMerge == InitMerge /\ [][NextMerge]_vars

(***************************************************************************)
(* Shared notions of the claims on merge_taxonomies.                       *)
(***************************************************************************)
\* merge_taxonomies returned
Merged_ == mode = "merge" /\ pc = "done"

\* the taxonomy files of a result, of either shape
ResultFiles(result) ==
    IF "taxonomies" \in DOMAIN result THEN Range(result.taxonomies) ELSE {result}

\* the classification list a result holds under a taxonomy name
ListUnder(result, tname) ==
    (CHOOSE f \in ResultFiles(result) : f.taxonomy_name = tname).classifications

ResultNames(result) == {f.taxonomy_name : f \in ResultFiles(result)}

\* the same taxonomy names, and under each the same entries as often
SameClassifications(r1, r2) ==
    /\ ResultNames(r1) = ResultNames(r2)
    /\ \A tname \in ResultNames(r1) :
        \A e \in Range(ListUnder(r1, tname)) \cup Range(ListUnder(r2, tname)) :
            CountIn(e, ListUnder(r1, tname)) = CountIn(e, ListUnder(r2, tname))

\* the input paths whose file was validated
Validated(files) == {i \in DOMAIN files : files[i].loads /\ is_taxonomy_file(files[i].data)}

\* the list without its i-th element
Without(files, i) == SubSeq(files, 1, i - 1) \o SubSeq(files, i + 1, Len(files))

(***************************************************************************)
(* C18. TaxonomyMerger is idempotent: for every valid taxonomy file F,     *)
(* merging the input list [F, F] yields the same classification set as     *)
(* merging [F], and more generally adding a file whose entries all already *)
(* occur among the inputs for the same taxonomy name does not change the   *)
(* merged result.                                                          *)
(***************************************************************************)
\* file i is validated, and each of its entries occurs in another validated file of its name
AddsNothing(files, i) ==
    /\ i \in Validated(files)
    /\ \E j \in Validated(files) \ {i} :
        files[j].data.taxonomy_name = files[i].data.taxonomy_name
    /\ \A e \in Range(files[i].data.classifications) :
        \E j \in Validated(files) \ {i} :
            /\ files[j].data.taxonomy_name = files[i].data.taxonomy_name
            /\ e \in Range(files[j].data.classifications)

\* C18: a file that adds nothing leaves the merged classifications as they are without it
C18_Idempotent ==
    Merged_ =>
        \A i \in DOMAIN input_files :
            AddsNothing(input_files, i) =>
                LET without == merge_taxonomies(Without(input_files, i), ignore_errors)
                IN /\ without.raised = ""
                   /\ SameClassifications(final_result, without.result)

\* the same file of two different entries given twice, and merged
C18_Witness ==
    /\ Merged_
    /\ Len(input_files) = 2
    /\ input_files[1] = input_files[2]
    /\ 1 \in Validated(input_files)
    /\ Len(input_files[1].data.classifications) = 2
    /\ Len(final_result.classifications) = 2

(***************************************************************************)
(* C19. Merging two valid files that share a taxonomy name and have        *)
(* disjoint entries yields one single-taxonomy result whose classification *)
(* set is exactly the union of the two files' entries (no entry lost, none *)
(* added). Entries are objects, and two entries are the same entry when    *)
(* their keys (node_id, issue, level1, level2) are equal.                  *)
(***************************************************************************)
\* the entries of the i-th input file, and their keys
EntriesOf(i) == Range(input_files[i].data.classifications)
KeysOf(i) == {EntryKey(e) : e \in EntriesOf(i)}

\* two validated files of one taxonomy name, holding objects only, no key in both
TwoDisjointFiles ==
    /\ Len(input_files) = 2
    /\ Validated(input_files) = {1, 2}
    /\ input_files[1].data.taxonomy_name = input_files[2].data.taxonomy_name
    /\ \A e \in EntriesOf(1) \cup EntriesOf(2) : IsDict(e)
    /\ KeysOf(1) \cap KeysOf(2) = {}

\* C19: two same-name files with disjoint entries merge into the union, in the single shape
C19_DisjointUnion ==
    (Merged_ /\ TwoDisjointFiles) =>
        /\ DOMAIN final_result = {"taxonomy_name", "classifications"}
        /\ final_result.taxonomy_name = input_files[1].data.taxonomy_name
        /\ Range(final_result.classifications) = EntriesOf(1) \cup EntriesOf(2)
        /\ Len(final_result.classifications) = Cardinality(EntriesOf(1) \cup EntriesOf(2))

\* a file of two entries and a file of a third, merged into three
C19_Witness ==
    /\ Merged_
    /\ TwoDisjointFiles
    /\ Cardinality(EntriesOf(1)) = 2
    /\ Cardinality(EntriesOf(2)) = 1
    /\ Len(final_result.classifications) = 3

(***************************************************************************)
(* C20. The shape of the merged result is decided by the number of         *)
(* distinct taxonomy names among the validated inputs: exactly one name    *)
(* gives the single-taxonomy shape {taxonomy_name, classifications}; two   *)
(* or more give the aggregate shape {taxonomies: [...]} containing exactly *)
(* one element per distinct name, each name present, ordered by name       *)
(* ascending.                                                              *)
(***************************************************************************)
\* the taxonomy names of the validated inputs
ValidatedNames ==
    {input_files[i].data.taxonomy_name : i \in Validated(input_files)}

\* C20: one validated name gives the single shape, several the aggregate sorted by name
C20_ShapeByNames ==
    Merged_ =>
        /\ Cardinality(ValidatedNames) = 1 =>
            /\ DOMAIN final_result = {"taxonomy_name", "classifications"}
            /\ final_result.taxonomy_name \in ValidatedNames
        /\ Cardinality(ValidatedNames) >= 2 =>
            /\ DOMAIN final_result = {"taxonomies"}
            /\ Len(final_result.taxonomies) = Cardinality(ValidatedNames)
            /\ {final_result.taxonomies[k].taxonomy_name :
                    k \in DOMAIN final_result.taxonomies} = ValidatedNames
            /\ \A k \in DOMAIN final_result.taxonomies :
                DOMAIN final_result.taxonomies[k] = {"taxonomy_name", "classifications"}
            /\ \A k \in 1..(Len(final_result.taxonomies) - 1) :
                StrLess(final_result.taxonomies[k].taxonomy_name,
                        final_result.taxonomies[k + 1].taxonomy_name)
        /\ Cardinality(ValidatedNames) >= 1

\* the file of the larger name given first: the aggregate lists the smaller name first
C20_Witness ==
    /\ Merged_
    /\ Len(input_files) = 2
    /\ Validated(input_files) = {1, 2}
    /\ StrLess(input_files[2].data.taxonomy_name, input_files[1].data.taxonomy_name)
    /\ "taxonomies" \in DOMAIN final_result
    /\ final_result.taxonomies[1].taxonomy_name = input_files[2].data.taxonomy_name

(***************************************************************************)
(* C21. With ignoreErrors set, an input file that cannot be parsed or      *)
(* fails TaxonomyFile shape validation is skipped and contributes nothing  *)
(* while every other file is still merged; without ignoreErrors the first  *)
(* such file makes merge raise and no result is produced. In both modes    *)
(* merge fails with RuntimeError when no input file validated              *)
(* successfully. Without ignoreErrors a bad file raises its own error      *)
(* before the RuntimeError of lines 85-86 is reached, so the last sentence *)
(* holds there for the empty input list only.                              *)
(***************************************************************************)
\* merge_taxonomies returned or raised
MergeEnded == mode = "merge" /\ pc # "start"

IsValidFile(file) == file.loads /\ is_taxonomy_file(file.data)

\* the positions of the files that cannot be parsed or fail validation
BadFiles == DOMAIN input_files \ Validated(input_files)

\* under --ignore-errors the result is that of the validated files alone
BadFilesSkipped ==
    (ignore_errors /\ Validated(input_files) # {}) =>
        /\ pc = "done"
        /\ final_result = merge_taxonomies(SelectSeq(input_files, IsValidFile), TRUE).result
        /\ files_read = Len(input_files)

\* without it the first bad file raises: nothing after it is read, nothing is returned
FirstBadFileRaises ==
    (~ignore_errors /\ BadFiles # {}) =>
        /\ pc \in {"JSONDecodeError", "ValueError"}
        /\ files_read + 1 \in BadFiles
        /\ \A i \in BadFiles : files_read + 1 <= i
        /\ final_result = <<>>

\* C21: as stated: bad files skipped or raised, RuntimeError whenever no file validated
C21_Original ==
    MergeEnded =>
        /\ BadFilesSkipped
        /\ FirstBadFileRaises
        /\ Validated(input_files) = {} => pc = "RuntimeError"

\* C21: bad files skipped or raised, RuntimeError when the loop ends with no file validated
C21_Amended ==
    MergeEnded =>
        /\ BadFilesSkipped
        /\ FirstBadFileRaises
        /\ (Validated(input_files) = {} /\ (ignore_errors \/ BadFiles = {})) =>
            pc = "RuntimeError" /\ final_result = <<>>

\* under --ignore-errors a bad file came before a file with entries, which was merged
C21_Witness ==
    /\ mode = "merge"
    /\ pc = "done"
    /\ ignore_errors
    /\ Len(input_files) = 2
    /\ BadFiles = {1}
    /\ final_result.classifications # <<>>

(***************************************************************************)
(* C22. After processing any prefix of the input files, the entries        *)
(* accumulated for each taxonomy name contain no two entries with the same *)
(* key (node_id, issue, level1, level2), and the seen-set of that name     *)
(* holds exactly the keys of its accumulated entries; de-duplication is    *)
(* per taxonomy name, so the same key under two different names is kept    *)
(* once under each.                                                        *)
(***************************************************************************)
\* the objects of the validated files of name tname among the first n input files
ObjectsRead(tname, n) ==
    UNION {{e \in Range(input_files[i].data.classifications) : IsDict(e)} :
           i \in {k \in Validated(input_files) :
                    k <= n /\ input_files[k].data.taxonomy_name = tname}}

\* C22: per name, accumulated keys are distinct, the seen-set is their set, each key read is kept
C22_SeenSetInvariant ==
    mode = "merge" =>
        /\ DOMAIN taxonomy_to_seen = DOMAIN taxonomy_to_items
        /\ \A tname \in DOMAIN taxonomy_to_items :
            LET items == taxonomy_to_items[tname]
            IN /\ \A j, k \in DOMAIN items :
                    j # k => EntryKey(items[j]) # EntryKey(items[k])
               /\ taxonomy_to_seen[tname] = {EntryKey(items[k]) : k \in DOMAIN items}
               /\ \A e \in ObjectsRead(tname, files_read) :
                    Cardinality({k \in DOMAIN items : EntryKey(items[k]) = EntryKey(e)}) = 1
               /\ \A k \in DOMAIN items : items[k] \in ObjectsRead(tname, files_read)

\* after two files of different names holding the same entry: it is kept under both names
C22_Witness ==
    /\ mode = "merge"
    /\ files_read = 2
    /\ Cardinality(DOMAIN taxonomy_to_items) = 2
    /\ \A tname \in DOMAIN taxonomy_to_items : taxonomy_to_items[tname] = <<Entry1>>

(***************************************************************************)
(* C23. In the merged result, every taxonomy's classification list is in   *)
(* non-decreasing order of (node_id, issue lowercased).                    *)
(***************************************************************************)
\* entry a may stand before entry b: its (node_id, issue lowercased) is not the greater
NotAfter(a, b) ==
    LET na == dget(a, "node_id", <<>>)
        nb == dget(b, "node_id", <<>>)
        ia == lower(dget(a, "issue", <<>>))
        ib == lower(dget(b, "issue", <<>>))
    IN IF na = nb THEN ia = ib \/ StrLess(ia, ib) ELSE StrLess(na, nb)

\* C23: each classification list of the result ascends in (node_id, issue lowercased)
C23_ListsSorted ==
    Merged_ =>
        \A f \in ResultFiles(final_result) :
            \A k \in 1..(Len(f.classifications) - 1) :
                NotAfter(f.classifications[k], f.classifications[k + 1])

\* entries read in descending order of node_id come out ascending
C23_Witness ==
    /\ Merged_
    /\ Len(input_files) = 1
    /\ input_files[1].data.classifications = <<Entry3, Entry1>>
    /\ final_result.classifications = <<Entry1, Entry3>>

(***************************************************************************)
(* classify_feedbacks.py: main, from the feedback directory the analyzer   *)
(* left and the taxonomy file to the written classification.               *)
(*                                                                         *)
(* The taxonomy JSON is a tree of tagged values: an object with its        *)
(* members, an array with its items, or a string.                          *)
(***************************************************************************)
JObject(members) == [type |-> "object", members |-> members]
JArray(items) == [type |-> "array", items |-> items]
JString == [type |-> "string"]

\* the taxonomy of taxonomy_raw
BugsCategory == JObject("OffByOne" :> JArray(<<>>) @@ "Uncategorized" :> JArray(<<>>))
ValidTaxonomy == JObject("T" :> JObject("Bugs" :> BugsCategory))

\* what --taxonomy-path can hold
TaxonomyPaths ==
    {[is_file |-> FALSE, parses |-> FALSE, data |-> JString],
     [is_file |-> TRUE, parses |-> FALSE, data |-> JString]}
        \cup {[is_file |-> TRUE, parses |-> TRUE, data |-> d] :
                d \in {JArray(<<>>),
                       JObject(<<>>),
                       JObject("T" :> JObject("Bugs" :> BugsCategory)
                                   @@ "U" :> JObject("Bugs" :> BugsCategory)),
                       JObject("T" :> JArray(<<>>)),
                       JObject("T" :> JObject("Bugs" :> JArray(<<>>))),
                       JObject("T" :> JObject("Bugs" :> JObject("OffByOne" :> JString))),
                       ValidTaxonomy}}

read_taxonomy_json_unchecked(path) == [raised |-> "", taxonomy_name |-> "T"]

\* read_taxonomy_json(taxonomy_path): the taxonomy name, or the error raised
read_taxonomy_json(path) ==
    IF ~path.is_file THEN [raised |-> "FileNotFoundError", taxonomy_name |-> ""]
    ELSE IF ~path.parses THEN [raised |-> "ValueError", taxonomy_name |-> ""]
    ELSE IF path.data.type # "object" \/ Cardinality(DOMAIN path.data.members) # 1
    THEN [raised |-> "ValueError", taxonomy_name |-> ""]
    ELSE LET name == CHOOSE k \in DOMAIN path.data.members : TRUE
             taxonomy_mapping == path.data.members[name]
         IN IF taxonomy_mapping.type # "object"
            THEN [raised |-> "ValueError", taxonomy_name |-> ""]
            ELSE IF \E l1 \in DOMAIN taxonomy_mapping.members :
                        taxonomy_mapping.members[l1].type # "object"
            THEN [raised |-> "ValueError", taxonomy_name |-> ""]
            ELSE IF \E l1 \in DOMAIN taxonomy_mapping.members :
                        \E l2 \in DOMAIN taxonomy_mapping.members[l1].members :
                            taxonomy_mapping.members[l1].members[l2].type # "array"
            THEN [raised |-> "ValueError", taxonomy_name |-> ""]
            ELSE [raised |-> "", taxonomy_name |-> name]

\* a node identifier as the name of its directory, and a directory name as one token
DirNameOf(id) == CASE id = "n1" -> <<"n", "1">> [] id = "n2" -> <<"n", "2">>

RECURSIVE Str(_)
Str(chars) == IF chars = <<>> THEN "" ELSE Head(chars) \o Str(Tail(chars))

\* what analyze_single_node can return for the i-th node of a chain of two
NodeResults(i) ==
    LET c == NodeContext(ChainNode(i), id_to_node(UniqueTree(2)))
    IN {AnalysisSuccess(c, response).val : response \in AnalysisResponses}
        \cup {AnalysisFailure(c, e).val : e \in Causes}

\* the node directories a finished analysis of one or two nodes has written
AnalyzerOutputs ==
    {WriteArtifacts(<<>>, r) : r \in NodeResults(1)}
        \cup {WriteArtifacts(WriteArtifacts(<<>>, r1), r2) :
                r1 \in NodeResults(1), r2 \in NodeResults(2)}

\* the feedback tree made of such directories, listed in any order
RootsOf(files) ==
    {[is_dir |-> TRUE,
      listing |-> [k \in DOMAIN order |->
                      [name |-> DirNameOf(order[k]),
                       output |-> <<[readable |-> TRUE, text |-> files[order[k]].output]>>,
                       sub |-> <<>>]]] :
        order \in {o \in [1..Cardinality(DOMAIN files) -> DOMAIN files] :
                     \A j, k \in DOMAIN o : j # k => o[j] # o[k]}}

MainRoots ==
    {[is_dir |-> d, listing |-> <<>>] : d \in BOOLEAN}
        \cup UNION {RootsOf(files) : files \in AnalyzerOutputs}

InitMain ==
    /\ mode = "main"
    /\ feedback_root \in MainRoots
    /\ taxonomy_path \in {<<path>> : path \in TaxonomyPaths}
    /\ args \in [concurrency : {0}, max_nodes : {0}, batch_size : 1..MaxBatch,
                 max_concurrency : {1}]
    /\ all_nodes = <<>>
    /\ feedbacks = <<>>
    /\ pc = "start"
    /\ final_result = <<>>
    /\ NoRun
    /\ input_files = <<>>
    /\ ignore_errors = FALSE
    /\ taxonomy_to_items = <<>>
    /\ taxonomy_to_seen = <<>>
    /\ files_read = 0

\* main, line 320: collect_feedbacks(args.feedback_path); an error ends main
main_collect_feedbacks ==
    /\ mode = "main"
    /\ pc = "start"
    /\ LET r == collect_feedbacks(feedback_root)
       IN /\ pc' = IF r.raised = "" THEN "collected" ELSE r.raised
          /\ feedbacks' = [k \in DOMAIN r.collected |->
                              <<Str(r.collected[k][1]), r.collected[k][2]>>]
    /\ UNCHANGED <<mode, all_nodes, args, feedback_root, input_files, ignore_errors, merger,
                   run, final_result, taxonomy_path>>

\* main, lines 321-358: read_taxonomy_json(args.taxonomy_path); an error ends main,
\* otherwise run_batches starts
main_read_taxonomy ==
    /\ mode = "main"
    /\ pc = "collected"
    /\ LET r == read_taxonomy_json(taxonomy_path[1])
       IN IF r.raised = "" THEN mode' = "classify" /\ pc' = "start"
          ELSE mode' = mode /\ pc' = r.raised
    /\ UNCHANGED <<all_nodes, args, feedbacks, feedback_root, input_files, ignore_errors,
                   merger, run, final_result, taxonomy_path>>

\* main, line 357: write_json(args.feedback_path, args.output_filename, final_result)
main_write_json ==
    /\ mode = "classify"
    /\ pc = "done"
    /\ taxonomy_path # <<>>
    /\ fs' = ("taxonomy_classification.json" :> final_result)
    /\ pc' = "written"
    /\ UNCHANGED <<config, merger, nodes_to_process, batches, task, sem, waiters, ctx, outcome,
                   completed, consumed, final_result, reply, stalled>>

NextMain ==
    \/ main_collect_feedbacks
    \/ main_read_taxonomy
    \/ run_batches_submit
    \/ \E b \in Units : process_batch_enter(b)
    \/ \E b \in Units : process_batch_resume(b)
    \/ \E b \in Units : call_gpt_async_return(b)
    \/ \E b \in Units : process_batch_except(b)
    \/ run_batches_gather
    \/ main_write_json

SpecMain == InitMain /\ [][NextMain]_vars

(***************************************************************************)
(* C24. Structural/input errors of a classification run (feedback root     *)
(* missing, zero feedback items found, taxonomy definition missing,        *)
(* malformed, or not exactly one top-level name mapping to                 *)
(* level1 -> level2 -> list) are raised to the caller before any external  *)
(* completion call is made and before any output file is written.          *)
(***************************************************************************)
\* the taxonomy file exists, parses, and is one name over level1 -> level2 -> list
WellFormedTaxonomy(path) ==
    /\ path.is_file
    /\ path.parses
    /\ path.data.type = "object"
    /\ Cardinality(DOMAIN path.data.members) = 1
    /\ \A name \in DOMAIN path.data.members :
        /\ path.data.members[name].type = "object"
        /\ \A l1 \in DOMAIN path.data.members[name].members :
            /\ path.data.members[name].members[l1].type = "object"
            /\ \A l2 \in DOMAIN path.data.members[name].members[l1].members :
                path.data.members[name].members[l1].members[l2].type = "array"

\* the run has a feedback root with feedback in it and a well-formed taxonomy
SoundInputs ==
    /\ feedback_root.is_dir
    /\ ~NoFeedbackAnywhere
    /\ WellFormedTaxonomy(taxonomy_path[1])

\* a prompt was built, a batch was submitted or answered, or a file was written
RunStarted ==
    \/ batches # <<>>
    \/ task # <<>>
    \/ ctx # <<>>
    \/ reply # <<>>
    \/ fs # <<>>

\* main ended with an error of its inputs
MainRaised == mode = "main" /\ pc \in {"FileNotFoundError", "RuntimeError", "ValueError"}

\* C24: with unsound inputs main never leaves its two reads except by raising, and no
\* batch is submitted, no call made and no file written, in any state of the run
C24_StructuralErrorsFirst ==
    taxonomy_path # <<>> =>
        /\ ~SoundInputs => ~RunStarted /\ mode = "main"
        /\ ~SoundInputs /\ pc \notin {"start", "collected"} => MainRaised
        /\ MainRaised => ~SoundInputs /\ ~RunStarted

\* the taxonomy maps its one name to a list, main raised ValueError with nothing started
C24_Witness ==
    /\ taxonomy_path # <<>>
    /\ feedback_root.is_dir
    /\ ~NoFeedbackAnywhere
    /\ taxonomy_path[1].is_file
    /\ taxonomy_path[1].parses
    /\ ~WellFormedTaxonomy(taxonomy_path[1])
    /\ pc = "ValueError"
    /\ ~RunStarted

(***************************************************************************)
(* C25. The merged result is independent of the order in which the input   *)
(* files are processed: for every permutation of the same list of valid    *)
(* files, merge returns the same result, including the same sequence of    *)
(* entries within each taxonomy's classification list.                     *)
(***************************************************************************)
\* the input list in another order
Reordered(files, perm) == [i \in DOMAIN files |-> files[perm[i]]]

\* C25: once a list of valid files is merged, every reordering of the list merges to the
\* very same result
C25_OrderIndependent ==
    (Merged_ /\ BadFiles = {}) =>
        \A perm \in Permutations(DOMAIN input_files) :
            merge_taxonomies(Reordered(input_files, perm), ignore_errors).result = final_result

(***************************************************************************)
(* C26. A single-taxonomy merged result is a fixed point of merge: it      *)
(* passes TaxonomyFile shape validation, and merging that output alone     *)
(* returns exactly the same taxonomy_name and the same classification      *)
(* sequence. An aggregate-shaped result ({taxonomies: [...]}) does not     *)
(* pass shape validation, so it cannot be fed back into merge as an input. *)
(***************************************************************************)
\* the result written out and read back as the only input of a second merge
MergedAgain(ignore) == merge_taxonomies(<<[loads |-> TRUE, data |-> final_result]>>, ignore)

SingleShaped == "taxonomies" \notin DOMAIN final_result

\* C26: a single-taxonomy result validates and merges to itself; an aggregate result does
\* not validate, and merging it alone raises ValueError, or RuntimeError when it is skipped
C26_FixedPoint ==
    Merged_ =>
        /\ SingleShaped =>
            /\ is_taxonomy_file(final_result)
            /\ \A ignore \in BOOLEAN :
                /\ MergedAgain(ignore).raised = ""
                /\ MergedAgain(ignore).result.taxonomy_name = final_result.taxonomy_name
                /\ MergedAgain(ignore).result.classifications = final_result.classifications
        /\ ~SingleShaped =>
            /\ ~is_taxonomy_file(final_result)
            /\ MergedAgain(FALSE).raised = "ValueError"
            /\ MergedAgain(TRUE).raised = "RuntimeError"

\* a single-taxonomy result of two files with two entries in its list
C26_Witness ==
    /\ Merged_
    /\ SingleShaped
    /\ Len(input_files) = 2
    /\ Len(final_result.classifications) = 2
    /\ final_result.classifications[1] # final_result.classifications[2]

(***************************************************************************)
(* C27. Inside a file that passed shape validation, an element of          *)
(* classifications that is not an object is dropped without any error,     *)
(* whether or not ignoreErrors is set, while an object lacking issue,      *)
(* node_id, level1 or level2 is kept and keyed with the empty string for   *)
(* each missing field (so two such objects that agree on their present key *)
(* fields are de-duplicated); merge never raises on the content of an      *)
(* individual entry.                                                       *)
(***************************************************************************)
\* a key field of an entry, the empty string where the entry lacks it
FieldOrEmpty(e, field) == IF field \in DOMAIN e THEN e[field] ELSE <<>>

KeyWithEmpty(e) ==
    <<FieldOrEmpty(e, "node_id"), FieldOrEmpty(e, "issue"), FieldOrEmpty(e, "level1"),
      FieldOrEmpty(e, "level2")>>

\* the input files as they are with every classification list emptied
Emptied(files) ==
    [i \in DOMAIN files |->
        IF i \in Validated(files)
        THEN [loads |-> TRUE, data |-> TaxonomyFile(files[i].data.taxonomy_name, <<>>)]
        ELSE files[i]]

\* C27: how merge ends is decided by the files with their lists emptied, so not by any
\* entry; the result holds no element that is not an object; and each object read,
\* complete or not, is in the result exactly once up to its key with empty strings
C27_EntryContentNeverRaises ==
    MergeEnded =>
        /\ pc = "done" <=> merge_taxonomies(Emptied(input_files), ignore_errors).raised = ""
        /\ pc # "done" => pc = merge_taxonomies(Emptied(input_files), ignore_errors).raised
        /\ pc = "done" =>
            \A i \in Validated(input_files) :
                LET list == ListUnder(final_result, input_files[i].data.taxonomy_name)
                IN /\ EntryScalar \notin Range(list)
                   /\ \A e \in Range(input_files[i].data.classifications) \ {EntryScalar} :
                        /\ Cardinality({k \in DOMAIN list :
                                            KeyWithEmpty(list[k]) = KeyWithEmpty(e)}) = 1
                        /\ \E k \in DOMAIN list :
                            /\ KeyWithEmpty(list[k]) = KeyWithEmpty(e)
                            /\ DOMAIN list[k] = DOMAIN e

\* without ignoreErrors, a file with an element that is no object and an object without
\* level2, and a second file with that object again, merged into the one object
C27_Witness ==
    /\ Merged_
    /\ ~ignore_errors
    /\ Len(input_files) = 2
    /\ input_files[1].data = TaxonomyFile(<<"A">>, <<EntryScalar, EntryNoLevel2>>)
    /\ input_files[2].data = TaxonomyFile(<<"A">>, <<EntryNoLevel2>>)
    /\ final_result.classifications = <<EntryNoLevel2>>

(***************************************************************************)
(* C28. A valid taxonomy file with an empty classifications list counts as *)
(* a successfully validated input: merging only such files succeeds with   *)
(* an empty classification list instead of raising RuntimeError, and the   *)
(* name of such a file counts as an observed taxonomy name, so it can by   *)
(* itself switch the result from the single-taxonomy shape to the          *)
(* aggregate shape.                                                        *)
(***************************************************************************)
\* the validated input files whose classification list is empty
EmptyFiles == {i \in Validated(input_files) : input_files[i].data.classifications = <<>>}

\* C28: a merge of nothing but empty valid files returns, with empty lists; and the name
\* of an empty valid file is a name of the result, which is aggregate as soon as another
\* validated file has another name
C28_EmptyFileCounts ==
    /\ (MergeEnded /\ input_files # <<>> /\ EmptyFiles = DOMAIN input_files) =>
        /\ pc = "done"
        /\ \A f \in ResultFiles(final_result) : f.classifications = <<>>
    /\ Merged_ =>
        \A i \in EmptyFiles :
            /\ input_files[i].data.taxonomy_name \in ResultNames(final_result)
            /\ ListUnder(final_result, input_files[i].data.taxonomy_name) # <<>> =>
                \E j \in Validated(input_files) \ EmptyFiles :
                    input_files[j].data.taxonomy_name = input_files[i].data.taxonomy_name
            /\ (\E j \in Validated(input_files) :
                    input_files[j].data.taxonomy_name # input_files[i].data.taxonomy_name)
                => /\ ~SingleShaped
                   /\ Len(final_result.taxonomies) = 2

\* a file of taxonomy A with an entry and an empty file of taxonomy B: the aggregate shape
C28_Witness ==
    /\ Merged_
    /\ Len(input_files) = 2
    /\ input_files[1].data = TaxonomyFile(<<"A">>, <<Entry1>>)
    /\ input_files[2].data = TaxonomyFile(<<"B">>, <<>>)
    /\ final_result.taxonomies =
        <<TaxonomyFile(<<"A">>, <<Entry1>>), TaxonomyFile(<<"B">>, <<>>)>>

(***************************************************************************)
(* C29. The node analyzer uses its configured concurrency unclamped,       *)
(* unlike the batch classifier which clamps its limit to at least 1: with  *)
(* concurrency = 0 and at least one selected node, every unit is submitted *)
(* but none ever starts its external call, no artifact is ever written and *)
(* the run never terminates; for every concurrency >= 1 with external      *)
(* calls that always return or raise, the run terminates.                  *)
(***************************************************************************)
\* node analysis was started with concurrency 0 and at least one selected node
ZeroConcurrency ==
    mode = "analyze" /\ args.concurrency = 0 /\ pc # "start" /\ Units # {}

\* C29: with concurrency 0 no unit ever calls, nothing is written and the loop never
\* ends; a started run leads to every unit queued when node analysis has concurrency 0,
\* and to its end with every unit answered when it has concurrency >= 1, as also when
\* batch classification has max-concurrency 0
C29_UnclampedConcurrency ==
    /\ [](ZeroConcurrency =>
            /\ \A u \in Units : task[u] \in {"created", "waiting"}
            /\ sem = 0
            /\ reply = <<>>
            /\ fs = <<>>
            /\ pc = "loop")
    /\ (pc # "start" /\ (mode = "analyze" \/ args.max_concurrency = 0)) ~>
            IF ZeroConcurrency THEN \A u \in Units : task[u] = "waiting"
            ELSE pc = "done" /\ Units \subseteq DOMAIN reply

\* concurrency 0: three units are queued, none has called, nothing is written
C29_Witness ==
    /\ ZeroConcurrency
    /\ Cardinality(Units) = 3
    /\ \A u \in Units : task[u] = "waiting"
    /\ Len(waiters) = 3
    /\ fs = <<>>
    /\ pc = "loop"

(***************************************************************************)
(* C30. A recorded analysis failure flows downstream as ordinary feedback: *)
(* an output artifact whose content is the degraded text "ERROR during     *)
(* analysis: <cause>" written by the node analyzer is non-empty, so        *)
(* collect returns it as a FeedbackItem for that node and it is batched    *)
(* and sent for classification exactly like a genuine response; nothing in *)
(* the pipeline filters it out.                                            *)
(***************************************************************************)
\* the node directories whose output artifact is the record of a failed analysis
FailureArtifacts ==
    {k \in DOMAIN feedback_root.listing :
        \E e \in Causes :
            feedback_root.listing[k].output[1].text = <<"ERROR during analysis: ">> \o e}

\* the feedback item of such a directory
FailureItem(k) ==
    <<Str(feedback_root.listing[k].name), feedback_root.listing[k].output[1].text>>

\* the batches that hold an item
BatchesWith(item) == {b \in DOMAIN batches : item \in Range(batches[b])}

\* C30: the record of a failed analysis is collected as the item of its node, goes into
\* one batch, is in the request of that batch, and the run ends only with that request
\* answered, as for every other item
C30_FailureRecordIsFeedback ==
    (taxonomy_path # <<>> /\ feedback_root.is_dir) =>
        \A k \in FailureArtifacts :
            /\ pc \notin {"start", "FileNotFoundError", "RuntimeError"} =>
                Cardinality({i \in DOMAIN feedbacks : feedbacks[i] = FailureItem(k)}) = 1
            /\ (mode = "classify" /\ pc # "start") =>
                /\ Cardinality(BatchesWith(FailureItem(k))) = 1
                /\ \A b \in BatchesWith(FailureItem(k)) :
                    /\ b \in DOMAIN ctx =>
                        IsInfix(<<"<node_id>" \o FailureItem(k)[1] \o "</node_id>", "\n">>
                                    \o FailureItem(k)[2], ctx[b].request)
                    /\ pc \in {"done", "written"} => b \in DOMAIN reply
            /\ pc # "RuntimeError"

\* the first node's analysis failed, the second one's did not; both are in one batch,
\* which was sent and answered, and the classification is written
C30_Witness ==
    /\ taxonomy_path # <<>>
    /\ feedback_root.is_dir
    /\ Cardinality(FailureArtifacts) = 1
    /\ Len(feedbacks) = 2
    /\ feedbacks[1][2] = <<"ERROR during analysis: ", "timeout">>
    /\ Len(batches) = 1
    /\ 1 \in DOMAIN reply
    /\ ~reply[1].raised
    /\ pc = "written"

====
